---- MODULE Spec2Model ----
(***************************************************************************)
(* Model of src/main.ts (MermaidExporterPlugin): the document tree the     *)
(* plugin watches, its registry of processed diagrams, the export controls *)
(* it attaches, its timers and mutation batches, and the export pipeline.  *)
(*                                                                         *)
(* The document is a fixed skeleton of host elements, each of which the    *)
(* host may attach to or detach from its place; the plugin adds its own    *)
(* elements (synthesized containers, export buttons).  Elements are        *)
(* numbered in document order, so "first match" of a selector is the       *)
(* least matching number.                                                  *)
(***************************************************************************)
EXTENDS Integers, Sequences, FiniteSets, TLC

VARIABLES
    att,                \* host tree: att[n] = host element n is attached to its parent slot
    containers,         \* wrappers that hold a synthesized .mermaid-export-container
    buttons,            \* export buttons: [anchor |-> parent element, bound |-> closure's mermaidElement]
    processedDiagrams,  \* the registry (Set<HTMLElement>)
    scanTimers,         \* pending setTimeout(processExistingDiagrams) callbacks
    retryTimers,        \* retryTimers[e] = pending 500 ms anchor retries for element e
    batch,              \* mutation records queued for the MutationObserver
    ops,                \* export operations: ops[i] is the record of the i-th click
    vault,              \* folders that exist in the vault
    staging,            \* operations whose staging wrapper is appended to document.body
    settings,           \* the plugin's settings
    last,               \* history: the handler that ran last
    served,             \* history: the nodes for which a control was ever created
    applied,            \* the last call of a function observed on its own: its
                        \* arguments and what it returned
    observer            \* this.observer is a connected MutationObserver (FALSE: null)

vars == <<att, containers, buttons, processedDiagrams, scanTimers, retryTimers,
          batch, ops, vault, staging, settings, last, served, applied, observer>>

domVars == <<att, containers, buttons, processedDiagrams, scanTimers, retryTimers,
             batch>>
exportVars == <<ops, vault, staging, settings, applied, observer>>

(***************************************************************************)
(* Bounds of the model.                                                    *)
(***************************************************************************)
MaxScanTimers == 1
MaxRetryTimers == 1
MaxOps == 1            \* export operations in one behaviour

(***************************************************************************)
(* The host elements.  The shapes are those the selectors of main.ts       *)
(* anticipate: a live-preview block holding a rendered diagram and a       *)
(* lazily materialised edit button (L1), a pre block holding the tagged    *)
(* code element, which the host replaces on re-render (P2), and a rendered *)
(* diagram outside any block wrapper (M4).                                 *)
(***************************************************************************)
Null == -1
Body == 0     \* document.body
View == 1     \* div.cm-editor
L1 == 2       \* div.cm-preview-code-block.cm-embed-block.cm-lang-mermaid
M1 == 3       \*   div.mermaid
S1 == 4       \*     svg#mermaid-1
E1 == 5       \*   div.edit-block-button[aria-label="Edit this block"]
P2 == 6       \* pre
C2a == 7      \*   code.language-mermaid (first rendering)
C2b == 8      \*   code.language-mermaid (the host's replacement)
M4 == 9       \* div.mermaid
S4 == 10      \*   svg#mermaid-4
KBase == 100  \* the synthesized container of wrapper w is element KBase + w
\* the staging nodes of an export (lines 662-699, 710-714)
stagingWrapper == S4 + 1             \* div, the wrapper appended to document.body
tempContainer == stagingWrapper + 1  \*   div.mermaid, the temporary container
stagedSvg == tempContainer + 1       \*     svg, the rendering the engine may leave

HostNodes == Body..S4
Toggle == {L1, E1, P2, C2a, C2b, M4}
\* the renderings of the code of block P2; the host shows at most one of them
Rendering == {C2a, C2b}
KNodes == {KBase + L1, KBase + P2}
StagingNodes == {stagingWrapper, tempContainer, stagedSvg}
Elements == HostNodes \cup KNodes \cup StagingNodes

home ==
    (Body :> Null) @@ (View :> Body)
    @@ (L1 :> View) @@ (M1 :> L1) @@ (S1 :> M1) @@ (E1 :> L1)
    @@ (P2 :> View) @@ (C2a :> P2) @@ (C2b :> P2)
    @@ (M4 :> View) @@ (S4 :> M4)
    @@ (stagingWrapper :> Body) @@ (tempContainer :> stagingWrapper)
    @@ (stagedSvg :> tempContainer)

Div == [n \in Elements |-> "DIV"]
tagName ==
    (Body :> "BODY") @@ (S1 :> "SVG") @@ (S4 :> "SVG") @@ (stagedSvg :> "SVG")
    @@ (P2 :> "PRE") @@ (C2a :> "CODE") @@ (C2b :> "CODE")
    @@ Div

Preview == {"cm-preview-code-block", "cm-embed-block", "cm-lang-mermaid"}
NoClass == [n \in Elements |-> {}]
classList ==
    (View :> {"cm-editor"})
    @@ (L1 :> Preview) @@ (M1 :> {"mermaid"}) @@ (E1 :> {"edit-block-button"})
    @@ (C2a :> {"language-mermaid"}) @@ (C2b :> {"language-mermaid"})
    @@ (M4 :> {"mermaid"}) @@ (tempContainer :> {"mermaid"})
    @@ (KBase + L1 :> {"mermaid-export-container"}) @@ (KBase + P2 :> {"mermaid-export-container"})
    @@ NoClass

NoString == [n \in Elements |-> ""]
ariaLabel == (E1 :> "Edit this block") @@ NoString
idAttr ==
    (S1 :> "mermaid-1") @@ (S4 :> "mermaid-4")
    @@ (tempContainer :> "mermaid-export-1") @@ (stagedSvg :> "mermaid-export-1") @@ NoString

\* data-code || data-mermaid-code || data-source: no element of the skeleton carries one
dataCode == NoString

\* Own text of an element (the text node children).
ownText == (C2a :> " pie a ") @@ (C2b :> "not a diagram") @@ NoString

\* The bodies of the ```mermaid fences of the note for the blocks L1 and M4, whose
\* rendering carries no source text (the fence of P2 is the text of its code element).
FenceL1 == "pie 1\n"
FenceM4 == "pie 4\n"

(***************************************************************************)
(* Strings: String.prototype.trim, toLowerCase, includes, startsWith.      *)
(***************************************************************************)
IsSpace(c) == c \in {" ", "\n", "\t", "\r"}

RECURSIVE trimStart(_)
trimStart(s) ==
    IF Len(s) = 0 THEN s
    ELSE IF IsSpace(SubSeq(s, 1, 1)) THEN trimStart(SubSeq(s, 2, Len(s)))
    ELSE s

RECURSIVE trimEnd(_)
trimEnd(s) ==
    IF Len(s) = 0 THEN s
    ELSE IF IsSpace(SubSeq(s, Len(s), Len(s))) THEN trimEnd(SubSeq(s, 1, Len(s) - 1))
    ELSE s

trim(s) == trimEnd(trimStart(s))

UpperCase == "ABCDEFGHIJKLMNOPQRSTUVWXYZ"
LowerCase == "abcdefghijklmnopqrstuvwxyz"

lowerChar(c) ==
    IF \E i \in 1..26 : SubSeq(UpperCase, i, i) = c
    THEN LET i == CHOOSE j \in 1..26 : SubSeq(UpperCase, j, j) = c
         IN  SubSeq(LowerCase, i, i)
    ELSE c

RECURSIVE toLowerCase(_)
toLowerCase(s) ==
    IF Len(s) = 0 THEN s
    ELSE lowerChar(SubSeq(s, 1, 1)) \o toLowerCase(SubSeq(s, 2, Len(s)))

includes(s, k) ==
    \E i \in 1..(Len(s) - Len(k) + 1) : SubSeq(s, i, i + Len(k) - 1) = k

startsWith(s, k) == Len(s) >= Len(k) /\ SubSeq(s, 1, Len(k)) = k

(***************************************************************************)
(* Settings, file names and paths.                                         *)
(***************************************************************************)
DEFAULT_SETTINGS ==
    [exportQuality |-> "high", defaultExportLocation |-> "",
     filenameFormat |-> "{noteName}-{timestamp}", exportFormat |-> "svg"]

endsWith(s, k) == Len(s) >= Len(k) /\ SubSeq(s, Len(s) - Len(k) + 1, Len(s)) = k

\* The replacement text of String.prototype.replace for one match: $$ is a dollar
\* sign, $& the matched text, $` the text before the match and $' the text after
\* it; the patterns have no capture groups, so any other $ stands for itself.
RECURSIVE expandReplacement(_, _, _, _)
expandReplacement(rep, matched, before, after) ==
    IF Len(rep) = 0 THEN rep
    ELSE IF Len(rep) = 1 \/ SubSeq(rep, 1, 1) # "$"
    THEN SubSeq(rep, 1, 1) \o expandReplacement(SubSeq(rep, 2, Len(rep)), matched, before, after)
    ELSE LET rest == expandReplacement(SubSeq(rep, 3, Len(rep)), matched, before, after)
             c == SubSeq(rep, 2, 2)
         IN  IF c = "$" THEN "$" \o rest
             ELSE IF c = "&" THEN matched \o rest
             ELSE IF c = "`" THEN before \o rest
             ELSE IF c = "'" THEN after \o rest
             ELSE "$" \o expandReplacement(SubSeq(rep, 2, Len(rep)), matched, before, after)

\* the matches of pat in s from position k on, each replaced
RECURSIVE replaceFrom(_, _, _, _)
replaceFrom(s, k, pat, rep) ==
    IF k > Len(s) THEN ""
    ELSE IF k + Len(pat) - 1 <= Len(s) /\ SubSeq(s, k, k + Len(pat) - 1) = pat
    THEN expandReplacement(rep, pat, SubSeq(s, 1, k - 1), SubSeq(s, k + Len(pat), Len(s)))
            \o replaceFrom(s, k + Len(pat), pat, rep)
    ELSE SubSeq(s, k, k) \o replaceFrom(s, k + 1, pat, rep)

\* s.replace(/pat/g, rep) for a literal pat
replaceAll(s, pat, rep) == replaceFrom(s, 1, pat, rep)

\* the clock and the active file at the time of an export
noteName == "note"
timestamp == "2025-01-01T10-00-00"
date == "2025-01-01"
time == "10-00-00"

\* activeFile ? activeFile.basename : 'mermaid-diagram'; "" stands for no active file
basename(activeFile) == IF activeFile = "" THEN "mermaid-diagram" ELSE activeFile

\* generateFilename for a given note name and clock (lines 816-831)
generateFilenameAt(st, name, ts, d, t) ==
    LET format == IF st.filenameFormat = "" THEN DEFAULT_SETTINGS.filenameFormat
                  ELSE st.filenameFormat
        filename == replaceAll(replaceAll(replaceAll(replaceAll(format,
                        "{noteName}", name), "{timestamp}", ts),
                        "{date}", d), "{time}", t)
        extension == IF st.exportFormat = "" THEN "svg" ELSE st.exportFormat
    IN  IF endsWith(filename, "." \o extension) THEN filename
        ELSE filename \o "." \o extension

generateFilename(st) == generateFilenameAt(st, noteName, timestamp, date, time)

\* s.replace(/^\/+/, '') and s.replace(/\/+$/, '')
RECURSIVE stripLeadingSlashes(_)
stripLeadingSlashes(s) ==
    IF Len(s) > 0 /\ SubSeq(s, 1, 1) = "/" THEN stripLeadingSlashes(SubSeq(s, 2, Len(s)))
    ELSE s

RECURSIVE stripTrailingSlashes(_)
stripTrailingSlashes(s) ==
    IF Len(s) > 0 /\ SubSeq(s, Len(s), Len(s)) = "/"
    THEN stripTrailingSlashes(SubSeq(s, 1, Len(s) - 1))
    ELSE s

\* normalizedPath of saveToVault (lines 882-888); it is dirPath as well (line 897)
normalizedPath(defaultExportLocation) ==
    LET stripped == stripTrailingSlashes(stripLeadingSlashes(trim(defaultExportLocation)))
    IN  IF stripped # "" /\ ~endsWith(stripped, "/") THEN stripped \o "/" ELSE stripped

\* s.split('/').filter(p => p); cur is the part being read
RECURSIVE splitPath(_, _)
splitPath(s, cur) ==
    IF Len(s) = 0 THEN (IF cur = "" THEN <<>> ELSE <<cur>>)
    ELSE IF SubSeq(s, 1, 1) = "/"
    THEN (IF cur = "" THEN <<>> ELSE <<cur>>) \o splitPath(SubSeq(s, 2, Len(s)), "")
    ELSE splitPath(SubSeq(s, 2, Len(s)), cur \o SubSeq(s, 1, 1))

\* currentPath of the segment walk after k parts (lines 908-911)
RECURSIVE currentPath(_, _)
currentPath(parts, k) ==
    IF k <= 0 THEN ""
    ELSE IF k = 1 THEN parts[1]
    ELSE currentPath(parts, k - 1) \o "/" \o parts[k]

(***************************************************************************)
(* The vault, as the storage API presents it: the set of folders that      *)
(* exist, named by their normalized paths.  Folder creation is not         *)
(* recursive and fails on a folder that exists; a write needs its folder.  *)
(***************************************************************************)
adapterPath(p) == currentPath(splitPath(p, ""), Len(splitPath(p, "")))
parentFolder(p) == currentPath(splitPath(p, ""), Len(splitPath(p, "")) - 1)
folderExists(v, p) == adapterPath(p) = "" \/ adapterPath(p) \in v
canCreateFolder(v, p) == ~folderExists(v, p) /\ folderExists(v, parentFolder(p))
canCreateBinary(v, fullPath) == folderExists(v, parentFolder(fullPath))

(***************************************************************************)
(* validateMermaidCode.                                                    *)
(***************************************************************************)
mermaidKeywords ==
    {"graph", "flowchart", "sequencediagram", "classdiagram", "statediagram",
     "erdiagram", "gantt", "pie", "gitgraph", "journey", "requirement",
     "c4context", "c4container", "c4component", "mindmap", "timeline",
     "sankey-beta", "quadrantchart"}

\* the same test on the text as typed, without lower-casing
validateMermaidCodeCased(code) ==
    IF Len(code) = 0 \/ Len(trim(code)) = 0 THEN FALSE
    ELSE \E keyword \in mermaidKeywords : includes(trim(code), keyword)

validateMermaidCode(code) ==
    IF Len(code) = 0 \/ Len(trim(code)) = 0 THEN FALSE
    ELSE LET trimmed == toLowerCase(trim(code))
         IN  \E keyword \in mermaidKeywords : includes(trimmed, keyword)

(***************************************************************************)
(* Selectors, as the sets of elements that match them.                     *)
(***************************************************************************)
HasClass(n, c) == c \in classList[n]
\* [class*="sub"], for a sub without spaces
ClassAttrIncludes(n, sub) == \E c \in classList[n] : includes(c, sub)

\* 'pre, .code-block, .cm-preview-code-block, .cm-embed-block, [class*="code"], .markdown-preview-section'
SelBlockWrapper ==
    {m : m \in {n \in Elements :
        \/ tagName[n] = "PRE"
        \/ HasClass(n, "code-block") \/ HasClass(n, "cm-preview-code-block")
        \/ HasClass(n, "cm-embed-block") \/ ClassAttrIncludes(n, "code")
        \/ HasClass(n, "markdown-preview-section")}}

\* 'pre, .code-block, .markdown-preview-section, .cm-preview-code-block, [class*="code"]'
SelSvgWrapper ==
    {m : m \in {n \in Elements :
        \/ tagName[n] = "PRE"
        \/ HasClass(n, "code-block") \/ HasClass(n, "markdown-preview-section")
        \/ HasClass(n, "cm-preview-code-block") \/ ClassAttrIncludes(n, "code")}}

\* 'pre, .code-block, .cm-preview-code-block, .cm-embed-block'
SelSynthWrapper ==
    {m : m \in {n \in Elements :
        \/ tagName[n] = "PRE"
        \/ HasClass(n, "code-block") \/ HasClass(n, "cm-preview-code-block")
        \/ HasClass(n, "cm-embed-block")}}

\* 'code.language-mermaid, code[class*="mermaid"]'
SelMermaidCode ==
    {m : m \in {n \in Elements :
        tagName[n] = "CODE" /\ (HasClass(n, "language-mermaid") \/ ClassAttrIncludes(n, "mermaid"))}}

\* '.cm-preview-code-block.cm-lang-mermaid, .cm-embed-block.cm-lang-mermaid,
\*  [class*="cm-preview-code-block"][class*="mermaid"]'
SelPreviewBlock ==
    {m : m \in {n \in Elements :
        \/ HasClass(n, "cm-preview-code-block") /\ HasClass(n, "cm-lang-mermaid")
        \/ HasClass(n, "cm-embed-block") /\ HasClass(n, "cm-lang-mermaid")
        \/ ClassAttrIncludes(n, "cm-preview-code-block") /\ ClassAttrIncludes(n, "mermaid")}}

\* 'code.language-mermaid'
SelLanguageMermaid ==
    {m : m \in {n \in Elements : tagName[n] = "CODE" /\ HasClass(n, "language-mermaid")}}

SelEditButton ==
    {m : m \in {n \in Elements : HasClass(n, "edit-block-button")}}

\* '.edit-block-button[aria-label*="Edit"], div[aria-label="Edit this block"]'
SelEditByAria ==
    {m : m \in {n \in Elements :
        \/ HasClass(n, "edit-block-button") /\ includes(ariaLabel[n], "Edit")
        \/ tagName[n] = "DIV" /\ ariaLabel[n] = "Edit this block"}}

\* the classList / attribute test of lines 287-291 (no element carries data-code-block)
SelBlockContainer ==
    {m : m \in {n \in Elements :
        \/ HasClass(n, "code-block-wrapper") \/ HasClass(n, "code-block")
        \/ HasClass(n, "cm-preview-code-block") \/ HasClass(n, "cm-embed-block")}}

\* '.code-block-flair, .code-block-actions, .code-block-edit-button'
SelActionBar ==
    {m : m \in {n \in Elements :
        \/ HasClass(n, "code-block-flair") \/ HasClass(n, "code-block-actions")
        \/ HasClass(n, "code-block-edit-button")}}

SelExportContainer ==
    {m : m \in {n \in Elements : HasClass(n, "mermaid-export-container")}}
SelMermaidClass ==
    {m : m \in {n \in Elements : HasClass(n, "mermaid")}}
SelPre ==
    {m : m \in {n \in Elements : tagName[n] = "PRE"}}
SelCode ==
    {m : m \in {n \in Elements : tagName[n] = "CODE"}}

\* 'pre, .code-block, code.language-mermaid, .mermaid, svg.mermaid'
SelHover ==
    {m : m \in {n \in Elements :
        \/ tagName[n] = "PRE" \/ HasClass(n, "code-block")
        \/ tagName[n] = "CODE" /\ HasClass(n, "language-mermaid")
        \/ HasClass(n, "mermaid")}}

\* '.cm-editor, .markdown-source-view, .markdown-preview-view'
SelEditorOrPreview ==
    {m : m \in {n \in Elements :
        \/ HasClass(n, "cm-editor") \/ HasClass(n, "markdown-source-view")
        \/ HasClass(n, "markdown-preview-view")}}

\* '.cm-editor, .markdown-source-view'
SelEditor ==
    {m : m \in {n \in Elements : HasClass(n, "cm-editor") \/ HasClass(n, "markdown-source-view")}}

\* 'pre, .code-block, .markdown-preview-section, .cm-preview-code-block'
SelSvgContainer ==
    {m : m \in {n \in Elements :
        \/ tagName[n] = "PRE" \/ HasClass(n, "code-block")
        \/ HasClass(n, "markdown-preview-section") \/ HasClass(n, "cm-preview-code-block")}}

\* 'pre, .code-block, .cm-preview-code-block'
SelCodeContainer ==
    {m : m \in {n \in Elements :
        \/ tagName[n] = "PRE" \/ HasClass(n, "code-block")
        \/ HasClass(n, "cm-preview-code-block")}}

(***************************************************************************)
(* The tree.  cont is the set of wrappers holding a synthesized container; *)
(* the host part of the tree is the variable att.                          *)
(***************************************************************************)
\* the rendering is in the temporary container of an operation that waits for the
\* frame of line 719
svgStaged == \E i \in staging : ops[i].pc = "reflow" /\ ops[i].placed

parentElement(e, cont) ==
    IF e \in KNodes THEN (IF e - KBase \in cont THEN e - KBase ELSE Null)
    ELSE IF e = stagingWrapper THEN (IF staging # {} THEN Body ELSE Null)
    ELSE IF e = stagedSvg THEN (IF svgStaged THEN tempContainer ELSE Null)
    ELSE IF e \in DOMAIN att /\ ~att[e] THEN Null
    ELSE home[e]

RECURSIVE closest(_, _, _)
closest(e, Sel, cont) ==
    IF e = Null THEN Null
    ELSE IF e \in Sel THEN e
    ELSE closest(parentElement(e, cont), Sel, cont)

\* a.contains(x): x is a or a descendant of a
RECURSIVE contains(_, _, _)
contains(a, x, cont) ==
    IF x = Null THEN FALSE
    ELSE IF x = a THEN TRUE
    ELSE contains(a, parentElement(x, cont), cont)

querySelectorAll(ctx, Sel, cont) == {x \in Sel : x # ctx /\ contains(ctx, x, cont)}

First(S) == IF S = {} THEN Null ELSE CHOOSE x \in S : \A y \in S : x <= y

querySelector(ctx, Sel, cont) == First(querySelectorAll(ctx, Sel, cont))

inDocument(e, cont) == contains(Body, e, cont)

RECURSIVE SortedSeq(_)
SortedSeq(S) == IF S = {} THEN <<>> ELSE <<First(S)>> \o SortedSeq(S \ {First(S)})

RECURSIVE ConcatText(_)
ConcatText(q) == IF q = <<>> THEN "" ELSE ownText[Head(q)] \o ConcatText(Tail(q))

textContent(e, cont) == ConcatText(SortedSeq({x \in Elements : contains(e, x, cont)}))

\* 'svg.mermaid, .mermaid svg, svg[id^="mermaid"]' among the descendants of ctx
MermaidSvgs(ctx, cont) ==
    {x \in Elements :
        /\ tagName[x] = "SVG" /\ x # ctx /\ contains(ctx, x, cont)
        /\ \/ HasClass(x, "mermaid")
           \/ closest(parentElement(x, cont), SelMermaidClass, cont) # Null
           \/ startsWith(idAttr[x], "mermaid")}

\* '.mermaid svg' among the descendants of ctx
SvgsInMermaid(ctx, cont) ==
    {x \in Elements :
        /\ tagName[x] = "SVG" /\ x # ctx /\ contains(ctx, x, cont)
        /\ closest(parentElement(x, cont), SelMermaidClass, cont) # Null}

\* the export buttons in the subtree of ctx ('.mermaid-export-button')
ButtonsIn(ctx, btn, cont) == {b \in btn : contains(ctx, b.anchor, cont)}

\* the export buttons attached in the document
AttachedControls == {b \in buttons : inDocument(b.anchor, containers)}

(***************************************************************************)
(* findCodeBlockActionBar: the anchor of a diagram element, and the        *)
(* containers after the call (strategy 4 may create one).                  *)
(***************************************************************************)
EditButtonParent(ctx, cont) ==
    LET editButton == querySelector(ctx, SelEditButton, cont)
    IN  IF editButton # Null THEN parentElement(editButton, cont) ELSE Null

\* Strategy 1: the edit button inside the nearest block wrapper
AnchorStrategy1(mermaidElement, cont) ==
    LET codeBlockContainer == closest(mermaidElement, SelBlockWrapper, cont)
    IN  IF codeBlockContainer # Null THEN EditButtonParent(codeBlockContainer, cont) ELSE Null

\* Strategy 2: walk up to 10 ancestors
RECURSIVE AnchorStrategy2(_, _, _)
AnchorStrategy2(current, i, cont) ==
    IF i >= 10 \/ current = Null THEN Null
    ELSE LET cur == parentElement(current, cont)
         IN  IF cur = Null THEN Null
             ELSE IF EditButtonParent(cur, cont) # Null THEN EditButtonParent(cur, cont)
             ELSE IF cur \in SelBlockContainer
                  THEN LET actionBar == querySelector(cur, SelActionBar, cont)
                       IN  IF actionBar # Null THEN actionBar ELSE cur
             ELSE AnchorStrategy2(cur, i + 1, cont)

\* Strategy 3: the first edit button of the document, if in the same block wrapper
AnchorStrategy3(mermaidElement, cont) ==
    LET editButtonByAria == querySelector(Body, SelEditByAria, cont)
    IN  IF editButtonByAria = Null THEN Null
        ELSE LET btnContainer == closest(editButtonByAria, SelBlockWrapper, cont)
                 mermaidContainer == closest(mermaidElement, SelBlockWrapper, cont)
             IN  IF btnContainer = mermaidContainer
                 THEN parentElement(editButtonByAria, cont)
                 ELSE Null

\* Strategy 4 without the lookup of line 321: a container is made for every call
AnchorStrategy4Always(mermaidElement, cont) ==
    LET wrapper == closest(mermaidElement, SelSynthWrapper, cont)
    IN  IF wrapper = Null THEN [anchor |-> Null, cont |-> cont, created |-> FALSE]
        ELSE [anchor |-> KBase + wrapper, cont |-> cont \cup {wrapper}, created |-> TRUE]

\* Strategy 4: the synthesized container of the nearest wrapper, created if absent;
\* created tells that createElement and appendChild ran (lines 323-327)
AnchorStrategy4(mermaidElement, cont) ==
    LET wrapper == closest(mermaidElement, SelSynthWrapper, cont)
    IN  IF wrapper = Null THEN [anchor |-> Null, cont |-> cont, created |-> FALSE]
        ELSE LET actionBar == querySelector(wrapper, SelExportContainer, cont)
             IN  IF actionBar # Null
                 THEN [anchor |-> actionBar, cont |-> cont, created |-> FALSE]
                 ELSE [anchor |-> KBase + wrapper, cont |-> cont \cup {wrapper},
                       created |-> TRUE]

\* wrapper.style.position: strategy 4 sets it to 'relative' on the wrapper in which
\* it creates a container (line 326), and nothing else of the plugin writes it; the
\* blocks of the skeleton carry no inline position of their own
stylePosition(wrapper, cont) == IF wrapper \in cont THEN "relative" ELSE ""

findCodeBlockActionBar(mermaidElement, cont) ==
    IF AnchorStrategy1(mermaidElement, cont) # Null
    THEN [anchor |-> AnchorStrategy1(mermaidElement, cont), cont |-> cont]
    ELSE IF AnchorStrategy2(mermaidElement, 0, cont) # Null
    THEN [anchor |-> AnchorStrategy2(mermaidElement, 0, cont), cont |-> cont]
    ELSE IF AnchorStrategy3(mermaidElement, cont) # Null
    THEN [anchor |-> AnchorStrategy3(mermaidElement, cont), cont |-> cont]
    ELSE AnchorStrategy4(mermaidElement, cont)

(***************************************************************************)
(* addExportButton: the buttons after the call.  The new button is a child *)
(* of actionBar and its click handler closes over mermaidElement.  Where   *)
(* among the children it is inserted (lines 398-414) changes no selector   *)
(* result and is not modelled.                                             *)
(***************************************************************************)
\* addExportButton without the early return of lines 340-343
addExportButtonUnchecked(actionBar, mermaidElement, btn, cont) ==
    btn \cup {[anchor |-> actionBar, bound |-> mermaidElement]}

addExportButton(actionBar, mermaidElement, btn, cont) ==
    IF ButtonsIn(actionBar, btn, cont) # {} THEN btn
    ELSE btn \cup {[anchor |-> actionBar, bound |-> mermaidElement]}

(***************************************************************************)
(* The Locator: allMermaidElements of processExistingDiagrams, in the      *)
(* Set's insertion order.                                                  *)
(***************************************************************************)
\* an array: every match is kept, also of a node that is in it already
AddAllKeeping(acc, q) == acc \o q

RECURSIVE AddAll(_, _)
AddAll(acc, q) ==
    IF q = <<>> THEN acc
    ELSE IF \E i \in 1..Len(acc) : acc[i] = Head(q) THEN AddAll(acc, Tail(q))
    ELSE AddAll(Append(acc, Head(q)), Tail(q))

SvgTarget(el, cont) ==
    LET parent == parentElement(el, cont)
        codeBlockWrapper == closest(parent, SelSvgWrapper, cont)
    IN  IF codeBlockWrapper # Null THEN codeBlockWrapper ELSE parent

RECURSIVE SvgTargets(_, _)
SvgTargets(q, cont) ==
    IF q = <<>> THEN <<>>
    ELSE IF parentElement(Head(q), cont) = Null THEN SvgTargets(Tail(q), cont)
    ELSE <<SvgTarget(Head(q), cont)>> \o SvgTargets(Tail(q), cont)

\* 'pre code, .code-block' whose class or text names mermaid
IsMermaidContainer(n, cont) ==
    /\ \/ tagName[n] = "CODE" /\ closest(parentElement(n, cont), SelPre, cont) # Null
       \/ HasClass(n, "code-block")
    /\ \/ ClassAttrIncludes(n, "mermaid")
       \/ /\ startsWith(trim(textContent(n, cont)), "mermaid")
          /\ \/ includes(textContent(n, cont), "graph")
             \/ includes(textContent(n, cont), "flowchart")

allMermaidElements(cont) ==
    LET mermaidCodeBlocks == SortedSeq(querySelectorAll(Body, SelMermaidCode, cont))
        mermaidSvgs == SortedSeq(MermaidSvgs(Body, cont))
        previewCodeBlocks == SortedSeq(querySelectorAll(Body, SelPreviewBlock, cont))
        mermaidContainers ==
            SortedSeq({n \in Elements : inDocument(n, cont) /\ IsMermaidContainer(n, cont)})
    IN  AddAll(AddAll(AddAll(AddAll(<<>>, mermaidCodeBlocks), previewCodeBlocks),
                      SvgTargets(mermaidSvgs, cont)), mermaidContainers)

(***************************************************************************)
(* processExistingDiagrams: the loop over allMermaidElements, threading    *)
(* the state st = [btn, cont, reg, retry] through the elements in order.   *)
(***************************************************************************)
ProcessElement(st, element) ==
    IF element \in st.reg THEN st
    ELSE LET r == findCodeBlockActionBar(element, st.cont)
         IN  IF r.anchor # Null
             THEN [st EXCEPT !.btn = addExportButton(r.anchor, element, st.btn, r.cont),
                             !.cont = r.cont,
                             !.reg = st.reg \cup {element}]
             ELSE [st EXCEPT !.retry = Append(st.retry, element)]

\* a loop that ends at the first element it registers
RECURSIVE ProcessAllOnce(_, _)
ProcessAllOnce(st, q) ==
    IF q = <<>> THEN st
    ELSE IF ProcessElement(st, Head(q)).reg # st.reg THEN ProcessElement(st, Head(q))
    ELSE ProcessAllOnce(ProcessElement(st, Head(q)), Tail(q))

RECURSIVE ProcessAll(_, _)
ProcessAll(st, q) ==
    IF q = <<>> THEN st ELSE ProcessAll(ProcessElement(st, Head(q)), Tail(q))

processExistingDiagrams(btn, cont, reg) ==
    ProcessAll([btn |-> btn, cont |-> cont, reg |-> reg, retry |-> <<>>],
               allMermaidElements(cont))

(***************************************************************************)
(* cleanupRemovedDiagrams and findAssociatedMermaidElement.                *)
(***************************************************************************)
RECURSIVE AssociatedFrom(_, _, _)
AssociatedFrom(current, i, cont) ==
    IF i >= 10 \/ current = Null THEN Null
    ELSE IF \/ HasClass(current, "mermaid")
            \/ querySelectorAll(current, SelLanguageMermaid, cont) # {}
            \/ SvgsInMermaid(current, cont) # {}
    THEN current
    ELSE AssociatedFrom(parentElement(current, cont), i + 1, cont)

\* the button's parent is its anchor: the walk starts there
findAssociatedMermaidElement(button, cont) == AssociatedFrom(button.anchor, 0, cont)

IsOrphan(button, cont) ==
    LET mermaidElement == findAssociatedMermaidElement(button, cont)
    IN  mermaidElement = Null \/ ~inDocument(mermaidElement, cont)

\* cleanupRemovedDiagrams without the registry pruning of lines 130-140
cleanupKeepsRegistry(btn, cont, reg) ==
    [reg |-> reg,
     btn |-> {b \in btn : ~(inDocument(b.anchor, cont) /\ IsOrphan(b, cont))}]

cleanupRemovedDiagrams(btn, cont, reg) ==
    [reg |-> {element \in reg : inDocument(element, cont)},
     btn |-> {b \in btn : ~(inDocument(b.anchor, cont) /\ IsOrphan(b, cont))}]

(***************************************************************************)
(* extractMermaidCode: the strategy chain of lines 483-629.  A strategy    *)
(* that does not return yields "", which stands for "fall through"; the    *)
(* function's null is "" as well (the caller tests !mermaidCode).          *)
(***************************************************************************)
\* the editor's content (editor.getValue()), as the bodies of its ```mermaid fences
\* in order: one fence for each diagram block in the document
NoteFences(cont) ==
    (IF inDocument(L1, cont) THEN <<FenceL1>> ELSE <<>>)
    \o (IF inDocument(P2, cont)
        THEN [i \in 1..Len(SortedSeq(querySelectorAll(P2, SelCode, cont))) |->
                 textContent(SortedSeq(querySelectorAll(P2, SelCode, cont))[i], cont)]
        ELSE <<>>)
    \o (IF inDocument(M4, cont) THEN <<FenceM4>> ELSE <<>>)

\* the text of the first element of ctx matching sel, trimmed, if that is not empty
FirstCodeText(ctx, cont) ==
    LET codeBlock == querySelector(ctx, SelMermaidCode, cont)
    IN  IF codeBlock # Null THEN trim(textContent(codeBlock, cont)) ELSE ""

\* the first text of q that is not empty when trimmed and validates
RECURSIVE FirstValid(_)
FirstValid(q) ==
    IF q = <<>> THEN ""
    ELSE IF Len(trim(Head(q))) > 0 /\ validateMermaidCode(trim(Head(q))) THEN trim(Head(q))
    ELSE FirstValid(Tail(q))

CodeTexts(ctx, cont) ==
    LET codes == SortedSeq(querySelectorAll(ctx, SelMermaidCode, cont))
    IN  [i \in 1..Len(codes) |-> textContent(codes[i], cont)]

\* Strategy 1 (lines 486-523): a preview block
ExtractStrategy1(mermaidElement, cont) ==
    IF ~(HasClass(mermaidElement, "cm-preview-code-block")
            \/ HasClass(mermaidElement, "cm-embed-block"))
    THEN ""
    ELSE IF FirstCodeText(mermaidElement, cont) # "" THEN FirstCodeText(mermaidElement, cont)
    ELSE LET editorContainer == closest(mermaidElement, SelEditorOrPreview, cont)
             found == IF editorContainer # Null
                      THEN FirstValid(CodeTexts(editorContainer, cont)) ELSE ""
         IN  IF found # "" THEN found ELSE trim(dataCode[mermaidElement])

\* Strategy 2 (lines 526-532): a tagged code element inside the element
ExtractStrategy2(mermaidElement, cont) == FirstCodeText(mermaidElement, cont)

\* the keywords of lines 540-543, matched with their case
preKeywords ==
    {"graph", "flowchart", "sequenceDiagram", "classDiagram", "stateDiagram",
     "erDiagram", "gantt", "pie", "gitgraph", "journey", "requirement", "C4Context"}

\* Strategy 3 (lines 535-546): the code of the enclosing pre
ExtractStrategy3(mermaidElement, cont) ==
    LET preElement == closest(mermaidElement, SelPre, cont)
        codeInPre == IF preElement # Null THEN querySelector(preElement, SelCode, cont)
                     ELSE Null
        code == IF codeInPre # Null THEN textContent(codeInPre, cont) ELSE ""
    IN  IF \E k \in preKeywords : includes(code, k) THEN trim(code) ELSE ""

\* Strategy 4 (lines 549-554): the element's own text
ExtractStrategy4(mermaidElement, cont) ==
    IF tagName[mermaidElement] = "CODE" \/ HasClass(mermaidElement, "language-mermaid")
    THEN trim(textContent(mermaidElement, cont))
    ELSE ""

\* Strategy 5 (lines 557-586): from the container of the rendered svg
ExtractStrategy5(mermaidElement, cont) ==
    LET svgElement == First(MermaidSvgs(mermaidElement, cont))
        container == IF svgElement # Null THEN closest(svgElement, SelSvgContainer, cont)
                     ELSE Null
        editorView == IF container # Null THEN closest(container, SelEditor, cont) ELSE Null
    IN  IF container = Null THEN ""
        ELSE IF FirstCodeText(container, cont) # "" THEN FirstCodeText(container, cont)
        ELSE IF editorView # Null THEN FirstValid(CodeTexts(editorView, cont))
        ELSE ""

\* Strategy 6 (lines 589-611): the first fence of the active editor that validates
ExtractStrategy6(editorAvailable, cont) ==
    IF editorAvailable THEN FirstValid(NoteFences(cont)) ELSE ""

\* Strategy 7 (lines 615-626): a code element of the document near the element
NearCodes(mermaidElement, cont) ==
    {codeBlock \in querySelectorAll(Body, SelMermaidCode, cont) :
        /\ Len(trim(textContent(codeBlock, cont))) > 0
        /\ validateMermaidCode(trim(textContent(codeBlock, cont)))
        /\ LET codeContainer == closest(codeBlock, SelCodeContainer, cont)
           IN  /\ codeContainer # Null
               /\ \/ contains(mermaidElement, codeContainer, cont)
                  \/ contains(codeContainer, mermaidElement, cont)
                  \/ closest(mermaidElement, SelCodeContainer, cont) = codeContainer}

ExtractStrategy7(mermaidElement, cont) ==
    IF NearCodes(mermaidElement, cont) # {}
    THEN trim(textContent(First(NearCodes(mermaidElement, cont)), cont))
    ELSE ""

RECURSIVE FirstNonEmpty(_)
FirstNonEmpty(q) ==
    IF q = <<>> THEN "" ELSE IF Head(q) # "" THEN Head(q) ELSE FirstNonEmpty(Tail(q))

\* the chain with the editor's content asked first
extractMermaidCodeEditorFirst(mermaidElement, cont, editorAvailable) ==
    FirstNonEmpty(<<ExtractStrategy6(editorAvailable, cont),
                    ExtractStrategy1(mermaidElement, cont),
                    ExtractStrategy2(mermaidElement, cont),
                    ExtractStrategy3(mermaidElement, cont),
                    ExtractStrategy4(mermaidElement, cont),
                    ExtractStrategy5(mermaidElement, cont),
                    ExtractStrategy7(mermaidElement, cont)>>)

extractMermaidCode(mermaidElement, cont, editorAvailable) ==
    FirstNonEmpty(<<ExtractStrategy1(mermaidElement, cont),
                    ExtractStrategy2(mermaidElement, cont),
                    ExtractStrategy3(mermaidElement, cont),
                    ExtractStrategy4(mermaidElement, cont),
                    ExtractStrategy5(mermaidElement, cont),
                    ExtractStrategy6(editorAvailable, cont),
                    ExtractStrategy7(mermaidElement, cont)>>)

(***************************************************************************)
(* The watcher: host mutations, the MutationObserver callback, the timers. *)
(* A mutation record is queued for a change under document.body; the       *)
(* callback runs as a microtask, before any timer or event.  A host task   *)
(* makes one change, or replaces one element by another in one task.       *)
(***************************************************************************)
\* no function has been called on its own
NoCall == [fn |-> "none"]

NoBatch == [added |-> FALSE, removed |-> FALSE]
Pending == batch.added \/ batch.removed

NoTimers == [e \in Elements |-> 0]

\* the records are queued for an observer that observes document.body (lines
\* 109-112); a disconnected observer is handed none (lines 52-55)
Records(r) == IF observer THEN r ELSE NoBatch

Init ==
    /\ att = [n \in Toggle |-> FALSE]
    /\ containers = {}
    /\ buttons = {}
    /\ processedDiagrams = {}
    /\ scanTimers = 0
    /\ retryTimers = NoTimers
    /\ batch = NoBatch
    /\ ops = <<>>
    /\ vault = {}
    /\ staging = {}
    /\ settings = DEFAULT_SETTINGS
    /\ last = "load"
    /\ served = {}
    /\ applied = NoCall
    /\ observer = TRUE

\* The host inserts element n at its place.
HostAttach(n) ==
    /\ ~att[n]
    /\ n \in Rendering => \A m \in Rendering : ~att[m]
    /\ ~Pending
    /\ scanTimers < MaxScanTimers
    /\ att' = [att EXCEPT ![n] = TRUE]
    /\ batch' = Records([added |-> inDocument(home[n], containers), removed |-> FALSE])
    /\ UNCHANGED <<containers, buttons, processedDiagrams, scanTimers, retryTimers>>
    /\ UNCHANGED exportVars
    /\ last' = "host"
    /\ UNCHANGED served

\* The host removes element n (and its subtree) from its place.
HostDetach(n) ==
    /\ att[n]
    /\ ~Pending
    /\ att' = [att EXCEPT ![n] = FALSE]
    /\ batch' = Records([added |-> FALSE, removed |-> inDocument(home[n], containers)])
    /\ UNCHANGED <<containers, buttons, processedDiagrams, scanTimers, retryTimers>>
    /\ UNCHANGED exportVars
    /\ last' = "host"
    /\ UNCHANGED served

\* The host re-renders: it replaces element old by element new in one task.
HostReplace(old, new) ==
    /\ att[old] /\ ~att[new] /\ home[old] = home[new]
    /\ ~Pending
    /\ scanTimers < MaxScanTimers
    /\ att' = [att EXCEPT ![old] = FALSE, ![new] = TRUE]
    /\ batch' = Records([added |-> inDocument(home[new], containers),
                         removed |-> inDocument(home[old], containers)])
    /\ UNCHANGED <<containers, buttons, processedDiagrams, scanTimers, retryTimers>>
    /\ UNCHANGED exportVars
    /\ last' = "host"
    /\ UNCHANGED served

\* A callback that scans at once for a batch with additions, in place of the timer
\* of lines 97-99.
ObserverCallbackScans ==
    /\ Pending
    /\ \E st \in {IF batch.added
                   THEN processExistingDiagrams(buttons, containers, processedDiagrams)
                   ELSE [btn |-> buttons, cont |-> containers, reg |-> processedDiagrams,
                         retry |-> <<>>]} :
       \E c \in {cleanupRemovedDiagrams(st.btn, st.cont, st.reg)} :
          /\ buttons' = IF batch.removed THEN c.btn ELSE st.btn
          /\ processedDiagrams' = IF batch.removed THEN c.reg ELSE st.reg
          /\ containers' = st.cont
          /\ retryTimers' = retryTimers
          /\ served' = served \cup {b.bound : b \in st.btn \ buttons}
    /\ batch' = NoBatch
    /\ UNCHANGED <<att, scanTimers>>
    /\ UNCHANGED exportVars
    /\ last' = IF batch.removed THEN "cleanup" ELSE "observer"

\* The MutationObserver callback (lines 80-106).
ObserverCallback ==
    /\ Pending
    /\ \E c \in {cleanupRemovedDiagrams(buttons, containers, processedDiagrams)} :
       LET shouldProcess == batch.added
           shouldCleanup == batch.removed
       IN  /\ scanTimers' = IF shouldProcess THEN scanTimers + 1 ELSE scanTimers
           /\ processedDiagrams' = IF shouldCleanup THEN c.reg ELSE processedDiagrams
           /\ buttons' = IF shouldCleanup THEN c.btn ELSE buttons
           /\ batch' = [added |-> FALSE, removed |-> shouldCleanup /\ c.btn # buttons]
    /\ UNCHANGED <<att, containers, retryTimers>>
    /\ UNCHANGED exportVars
    /\ last' = IF batch.removed THEN "cleanup" ELSE "observer"
    /\ UNCHANGED served

RECURSIVE Schedule(_, _)
Schedule(timers, q) ==
    IF q = <<>> THEN timers
    ELSE Schedule([timers EXCEPT ![Head(q)] = @ + 1], Tail(q))

\* A scan that inserts on every run: the observer is handed additions for each
\* scan, also for one that found every element registered.
ScanTimerInserting(maxRetry) ==
    /\ scanTimers > 0
    /\ ~Pending
    /\ \E st \in {processExistingDiagrams(buttons, containers, processedDiagrams)} :
       LET timers == Schedule(retryTimers, st.retry)
       IN  /\ \A e \in Elements : timers[e] <= maxRetry
           /\ served' = served \cup {b.bound : b \in st.btn \ buttons}
           /\ buttons' = st.btn
           /\ containers' = st.cont
           /\ processedDiagrams' = st.reg
           /\ retryTimers' = timers
           /\ batch' = Records([added |-> TRUE, removed |-> FALSE])
    /\ scanTimers' = scanTimers - 1
    /\ UNCHANGED att
    /\ UNCHANGED exportVars
    /\ last' = "scan"

\* A setTimeout(() => processExistingDiagrams(), ...) callback fires; at most
\* maxRetry retries of one element are pending at a time.
ScanTimerWithin(maxRetry) ==
    /\ scanTimers > 0
    /\ ~Pending
    /\ \E st \in {processExistingDiagrams(buttons, containers, processedDiagrams)} :
       LET timers == Schedule(retryTimers, st.retry)
       IN  /\ \A e \in Elements : timers[e] <= maxRetry
           /\ served' = served \cup {b.bound : b \in st.btn \ buttons}
           /\ buttons' = st.btn
           /\ containers' = st.cont
           /\ processedDiagrams' = st.reg
           /\ retryTimers' = timers
           /\ batch' = Records([added |-> st.btn # buttons \/ st.cont # containers,
                                removed |-> FALSE])
    /\ scanTimers' = scanTimers - 1
    /\ UNCHANGED att
    /\ UNCHANGED exportVars
    /\ last' = "scan"

ScanTimer == ScanTimerWithin(MaxRetryTimers)

\* The 500 ms retry of lines 242-253 fires for element.
retryCallback(element, btn, cont, reg) ==
    IF element \in reg THEN [btn |-> btn, cont |-> cont, reg |-> reg]
    ELSE LET r == findCodeBlockActionBar(element, cont)
         IN  IF r.anchor # Null
             THEN [btn |-> addExportButton(r.anchor, element, btn, r.cont),
                   cont |-> r.cont,
                   reg |-> reg \cup {element}]
             ELSE [btn |-> btn, cont |-> cont, reg |-> reg]

\* the retry fires for element; at most maxScan rescans are pending at a time
RetryTimerWithin(element, maxScan) ==
    /\ retryTimers[element] > 0
    /\ ~Pending
    /\ scanTimers < maxScan
    /\ \E st \in {retryCallback(element, buttons, containers, processedDiagrams)} :
       LET new == st.btn \ buttons
       IN  /\ buttons' = st.btn
           /\ served' = served \cup {b.bound : b \in new}
           /\ containers' = st.cont
           /\ processedDiagrams' = st.reg
           /\ batch' = Records([added |-> \/ \E b \in new : inDocument(b.anchor, st.cont)
                                          \/ \E w \in st.cont \ containers :
                                                inDocument(w, st.cont),
                                removed |-> FALSE])
    /\ retryTimers' = [retryTimers EXCEPT ![element] = @ - 1]
    /\ UNCHANGED <<att, scanTimers>>
    /\ UNCHANGED exportVars
    /\ last' = "retry"

RetryTimer(element) == RetryTimerWithin(element, MaxScanTimers)

\* A mouseover whose target is inside a hover region (lines 115-123).
Hover ==
    /\ ~Pending
    /\ scanTimers < MaxScanTimers
    /\ \E target \in Elements :
          inDocument(target, containers) /\ closest(target, SelHover, containers) # Null
    /\ scanTimers' = scanTimers + 1
    /\ UNCHANGED <<att, containers, buttons, processedDiagrams, retryTimers, batch>>
    /\ UNCHANGED exportVars
    /\ last' = "hover"
    /\ UNCHANGED served

\* onunload (lines 50-62): the observer is disconnected, the export buttons of the
\* document are removed and the registry is cleared.  The timers that are pending
\* and the mouseover listener of line 115 are left as they are.
onunload ==
    /\ observer
    /\ ~Pending
    /\ observer' = FALSE
    /\ batch' = NoBatch
    /\ buttons' = {b \in buttons : ~inDocument(b.anchor, containers)}
    /\ processedDiagrams' = {}
    /\ last' = "unload"
    /\ UNCHANGED <<att, containers, scanTimers, retryTimers, served>>
    /\ UNCHANGED <<ops, vault, staging, settings, applied>>

Next ==
    \/ \E n \in Toggle : HostAttach(n)
    \/ \E n \in Toggle : HostDetach(n)
    \/ \E old, new \in Rendering : HostReplace(old, new)
    \/ ObserverCallback
    \/ ScanTimer
    \/ \E e \in Elements : RetryTimer(e)
    \/ Hover

Spec == Init /\ [][Next]_vars

\* the watcher with the plugin disabled at some moment
NextUnload ==
    \/ \E n \in Toggle : HostAttach(n)
    \/ \E n \in Toggle : HostDetach(n)
    \/ \E old, new \in Rendering : HostReplace(old, new)
    \/ ObserverCallback
    \/ ScanTimer
    \/ \E e \in Elements : RetryTimer(e)
    \/ Hover
    \/ onunload

SpecUnload == Init /\ [][NextUnload]_vars

(***************************************************************************)
(* The watcher under its scheduling: a queued observer callback runs, and  *)
(* a timer that is pending fires.  The host and the pointer act as they    *)
(* like, or not at all.                                                    *)
(***************************************************************************)
MaxLiveTimers == 3

HostActs ==
    \/ \E n \in Toggle : HostAttach(n)
    \/ \E n \in Toggle : HostDetach(n)
    \/ \E old, new \in Rendering : HostReplace(old, new)
    \/ Hover

\* the event loop runs a callback of the watcher that is due
WatcherRuns ==
    \/ ObserverCallback
    \/ ScanTimerWithin(MaxLiveTimers)
    \/ \E e \in Elements : RetryTimerWithin(e, MaxLiveTimers)

\* the host and the pointer act while no retry is pending, which bounds the retries
\* that are pending at a time
NextLive ==
    \/ HostActs /\ retryTimers = NoTimers
    \/ WatcherRuns

\* a callback of the watcher is due: WatcherRuns is enabled
WatcherDue ==
    \/ Pending
    \/ /\ scanTimers > 0
       /\ \A e \in Elements :
             Schedule(retryTimers,
                      processExistingDiagrams(buttons, containers,
                                              processedDiagrams).retry)[e]
                <= MaxLiveTimers
    \/ \E e \in Elements : retryTimers[e] > 0 /\ scanTimers < MaxLiveTimers

\* a callback of the watcher ran
WatcherRan == last' \in {"observer", "cleanup", "scan", "retry"}

\* weak fairness of WatcherRuns, WF_vars(WatcherRuns), with its enabling condition
\* and its steps written out
WatcherFair == []<>(~WatcherDue) \/ []<><<WatcherRan>>_vars

SpecLive == Init /\ [][NextLive]_vars /\ WatcherFair

\* the watcher in a host that detaches and attaches the editor view as well: a
\* node leaves the document with its ancestors
Detachable == Toggle \cup {View}

InitView ==
    /\ att = [n \in Detachable |-> n = View]
    /\ containers = {}
    /\ buttons = {}
    /\ processedDiagrams = {}
    /\ scanTimers = 0
    /\ retryTimers = NoTimers
    /\ batch = NoBatch
    /\ ops = <<>>
    /\ vault = {}
    /\ staging = {}
    /\ settings = DEFAULT_SETTINGS
    /\ last = "load"
    /\ served = {}
    /\ applied = NoCall
    /\ observer = TRUE

NextView ==
    \/ \E n \in Detachable : HostAttach(n)
    \/ \E n \in Detachable : HostDetach(n)
    \/ \E old, new \in Rendering : HostReplace(old, new)
    \/ ObserverCallback
    \/ ScanTimer
    \/ \E e \in Elements : RetryTimer(e)
    \/ Hover

SpecView == InitView /\ [][NextView]_vars

(***************************************************************************)
(* The export pipeline: handleExportClick and what it calls, one action    *)
(* for each stretch of code between two awaits.  An operation is a record: *)
(*   control   the clicked button                                          *)
(*   code      what extractMermaidCode returned ("" for null)              *)
(*   pc        where the operation waits                                   *)
(*   loading   the loading notice is shown                                 *)
(*   notices   the other notices shown, in order                           *)
(*   wrappers  staging wrappers created;  renders: calls of mermaid.render *)
(*   result    what mermaid.render returned                                *)
(*   calls     the storage API calls made, in order                        *)
(*   seg       the segment of the folder walk                              *)
(*   threw     saveToVault threw;  dest: where the file went               *)
(*   link      the download link is in document.body                       *)
(*   id        the render identifier;  svg: the markup the engine returned *)
(*   placed    the engine left the rendering in the temporary container    *)
(***************************************************************************)
NoticeLoading == "Exporting Mermaid diagram..."
NoticeNoSource == "Error: Could not find Mermaid diagram source code"
NoticeInvalid == "Error: Invalid Mermaid diagram code"
NoticeRenderFailed == "Error: Failed to render Mermaid diagram"
NoticeVaultWarning == "Could not save to vault location, using browser download instead"
NoticeSuccess(filename) == "Successfully exported: " \o filename
NoticeExportFailed(message) == "Export failed: " \o message

\* an early return of handleExportClick: hide the loading notice, show the error
Reported(op, notice) ==
    [op EXCEPT !.loading = FALSE, !.notices = Append(@, notice), !.pc = "done"]

\* the catch of handleExportClick left out: the error leaves the handler unreported
ExportEscapes(op, message) == [op EXCEPT !.pc = "done"]

\* the catch of handleExportClick (lines 474-477)
ExportFailed(op, message) ==
    [op EXCEPT !.notices = Append(@, NoticeExportFailed(message)), !.pc = "done"]

\* handleExportClick after downloadFile or convertSvgToRaster returned (lines 470-472)
Succeeded(op) ==
    [op EXCEPT !.loading = FALSE,
               !.notices = Append(@, NoticeSuccess(op.filename)),
               !.pc = "done"]

\* The render identifier of line 658: Date.now() and the digits of Math.random(),
\* whose draw-th value is taken to differ from the values drawn before
diagramId(draw) == [now |-> timestamp, random |-> draw]

NoId == [now |-> "", random |-> 0]

\* what mermaid.render(diagramId, mermaidCode) resolves to when it renders
render(id, mermaidCode) == [id |-> id, of |-> mermaidCode]

NoSvg == [id |-> NoId, of |-> ""]

\* handleExportClick without the validation of lines 436-441
handleExportClickUnvalidated(control, editorAvailable) ==
    LET mermaidCode == extractMermaidCode(control.bound, containers, editorAvailable)
        op == [control |-> control, code |-> mermaidCode, pc |-> "staged",
               loading |-> TRUE, notices |-> <<>>, wrappers |-> 0, renders |-> 0,
               result |-> "none", calls |-> <<>>, seg |-> 0, threw |-> FALSE,
               dest |-> "none", link |-> FALSE, id |-> NoId, svg |-> NoSvg,
               placed |-> FALSE, downloads |-> 0, filename |-> "", format |-> ""]
    IN  IF mermaidCode = "" THEN Reported(op, NoticeNoSource)
        ELSE [op EXCEPT !.wrappers = 1, !.id = diagramId(Len(ops) + 1)]

\* handleExportClick up to its first await (lines 421-441, 655-704)
handleExportClick(control, editorAvailable) ==
    LET mermaidCode == extractMermaidCode(control.bound, containers, editorAvailable)
        op == [control |-> control, code |-> mermaidCode, pc |-> "staged",
               loading |-> TRUE, notices |-> <<>>, wrappers |-> 0, renders |-> 0,
               result |-> "none", calls |-> <<>>, seg |-> 0, threw |-> FALSE,
               dest |-> "none", link |-> FALSE, id |-> NoId, svg |-> NoSvg,
               placed |-> FALSE, downloads |-> 0, filename |-> "", format |-> ""]
    IN  IF mermaidCode = "" THEN Reported(op, NoticeNoSource)
        ELSE IF ~validateMermaidCode(mermaidCode) THEN Reported(op, NoticeInvalid)
        ELSE [op EXCEPT !.wrappers = 1, !.id = diagramId(Len(ops) + 1)]

\* the removal of the catch branch of renderMermaidToSvg left out
keepWrapper(stg, i) == stg

\* a removal of every staging wrapper in document.body
removeEveryWrapper(stg, i) == {}

\* if (document.body.contains(wrapper)) document.body.removeChild(wrapper)
removeWrapper(stg, i) == stg \ {i}

\* the browser download of downloadFile (lines 856-875) and what follows it
BrowserDownload(op, browserOk) ==
    IF browserOk
    THEN Succeeded([op EXCEPT !.dest = "browser", !.link = TRUE, !.downloads = @ + 1])
    ELSE ExportFailed(op, "Failed to download file: browser")

\* the catch of the vault save left out: the error leaves downloadFile
VaultErrorThrown(op, browserOk) ==
    ExportFailed([op EXCEPT !.threw = TRUE], "Failed to download file: vault")

\* the catch of downloadFile for a failed vault save (lines 849-853)
VaultFailed(op, browserOk) ==
    BrowserDownload([op EXCEPT !.threw = TRUE,
                               !.notices = Append(@, NoticeVaultWarning)], browserOk)

\* saveToVault returned and downloadFile goes on to the browser download: the
\* return of line 848 left out
VaultSavedFallsThrough(op, browserOk) ==
    BrowserDownload([op EXCEPT !.dest = "vault"], browserOk)

\* saveToVault returned: downloadFile returns (lines 847-848) and handleExportClick
\* ends with the success notice
VaultSaved(op, browserOk) == Succeeded([op EXCEPT !.dest = "vault"])

\* a downloadFile whose promise never settles
downloadFilePending(op, browserOk) == [op EXCEPT !.pc = "pending"]

\* downloadFile up to its first await (lines 838-848, 881-892)
downloadFile(op, browserOk) ==
    IF trim(settings.defaultExportLocation) # ""
    THEN [op EXCEPT !.pc = "buffer"]
    ELSE BrowserDownload(op, browserOk)

\* handleExportClick after the render returned an SVG (lines 452-468): filename and
\* exportFormat are read from the settings of this moment; format is the encoding
\* of the artifact handed to downloadFile, vector markup or the raster format
\* convertSvgToRaster is called with
AfterRender(op, browserOk) ==
    LET filename == generateFilename(settings)
        exportFormat == IF settings.exportFormat = "" THEN "svg" ELSE settings.exportFormat
    IN  IF exportFormat \in {"png", "jpeg"}
        THEN [op EXCEPT !.pc = "image", !.filename = filename, !.format = exportFormat]
        ELSE downloadFile([op EXCEPT !.filename = filename, !.format = "svg"], browserOk)

dirPath == normalizedPath(settings.defaultExportLocation)
fullPath == dirPath \o generateFilename(settings)
parts == splitPath(dirPath, "")

Call(api, path, ok, walk) ==
    [api |-> api, path |-> path, ok |-> ok, walk |-> walk,
     present |-> folderExists(vault, path),
     parentPresent |-> folderExists(vault, parentFolder(path))]

\* the operations that wrote the file at path; every operation of a behaviour writes
\* to fullPath, the name of the moment of the behaviour
writers(q, path) == {j \in DOMAIN q : q[j].dest = "vault" /\ path = fullPath}

\* createBinary rejects a path that holds a file
fileExists(q, path) == writers(q, path) # {}

\* the folder walk moves on from segment k (the for loop of lines 909-915)
NextSegment(op, k) ==
    IF k < Len(parts) THEN [op EXCEPT !.seg = k + 1, !.pc = "walkExists"]
    ELSE [op EXCEPT !.pc = "write"]

\* the segments in the opposite order
walkPathReversed(k) == currentPath(parts, Len(parts) + 1 - k)

\* the path of segment k of the walk
walkPath(k) == currentPath(parts, k)

(***************************************************************************)
(* The export operations.  The tree is still while an operation runs.      *)
(***************************************************************************)
watchVars == <<att, containers, buttons, processedDiagrams, scanTimers, retryTimers,
               batch, last, served, applied, observer>>

\* what the steps of an operation leave alone in the watcher, but for the records
\* the observer is handed for the staging wrapper
watchFrame == <<att, containers, buttons, processedDiagrams, scanTimers, retryTimers,
                last, served, applied, observer>>

\* A click on an export button (lines 388-393): handleExportClick runs up to the
\* first await of renderMermaidToSvg, with the staging wrapper appended.
StartOperation(control, editorAvailable) ==
    /\ ~Pending
    /\ control \in AttachedControls
    /\ \E op \in {handleExportClick(control, editorAvailable)} :
          /\ ops' = Append(ops, op)
          /\ staging' = IF op.pc = "staged" THEN staging \cup {Len(ops) + 1} ELSE staging
    /\ UNCHANGED <<vault, settings>>
    /\ UNCHANGED watchFrame

\* the records of document.body.appendChild and removeChild (lines 699, 723-725,
\* 734-736) and of the rendering the engine leaves in the container
StagingRecords ==
    [added |-> staging' \ staging # {} \/ (svgStaged' /\ ~svgStaged),
     removed |-> staging \ staging' # {}]

Start(control, editorAvailable) ==
    StartOperation(control, editorAvailable) /\ UNCHANGED batch

Click(control, editorAvailable) == Len(ops) < MaxOps /\ Start(control, editorAvailable)

\* The frames and the delay of lines 704-706 have passed: mermaid.render is called.
RenderCall(i) ==
    /\ ops[i].pc = "staged"
    /\ ops' = [ops EXCEPT ![i].pc = "engine", ![i].renders = @ + 1]
    /\ UNCHANGED <<vault, staging, settings>>
    /\ UNCHANGED watchVars

EngineResults == {"svg", "empty", "throws"}

\* mermaid.render settles (line 710): it throws, or it returns with or without an svg;
\* placed tells whether tempContainer.querySelector('svg') of line 714 finds one.
EngineSettles(i, result, placed) ==
    /\ ops[i].pc = "engine"
    /\ IF result = "throws"
       THEN /\ staging' = removeWrapper(staging, i)
            /\ ops' = [ops EXCEPT ![i] = Reported([@ EXCEPT !.result = result],
                                                  NoticeRenderFailed)]
       ELSE /\ staging' = staging
            /\ ops' = [ops EXCEPT ![i].pc = "reflow", ![i].result = result,
                                   ![i].placed = placed /\ result = "svg",
                                   ![i].svg = IF result = "svg"
                                              THEN render(ops[i].id, ops[i].code)
                                              ELSE NoSvg]
    /\ UNCHANGED <<vault, settings>>
    /\ UNCHANGED watchFrame

EngineReturns(i, result, placed) == EngineSettles(i, result, placed) /\ UNCHANGED batch

\* After the frame of line 719: the wrapper is removed, the result is checked
\* (lines 725-733), and handleExportClick goes on to its next await.
HarvestResult(i, browserOk) ==
    /\ ops[i].pc = "reflow"
    /\ staging' = removeWrapper(staging, i)
    /\ ops' = [ops EXCEPT ![i] = IF ops[i].result = "empty"
                                  THEN Reported(@, NoticeRenderFailed)
                                  ELSE AfterRender(@, browserOk)]
    /\ UNCHANGED <<vault, settings>>
    /\ UNCHANGED watchFrame

Harvest(i, browserOk) == HarvestResult(i, browserOk) /\ UNCHANGED batch

ImageOutcomes == {"load", "error", "context"}

\* convertSvgToRaster: the image loads or fails (lines 966-1002).
ImageLoads(i, outcome) ==
    /\ ops[i].pc = "image"
    /\ ops' = [ops EXCEPT ![i] =
                  IF outcome = "load" THEN [@ EXCEPT !.pc = "blob"]
                  ELSE IF outcome = "error" THEN ExportFailed(@, "Failed to load SVG image")
                  ELSE ExportFailed(@, "Could not get canvas context")]
    /\ UNCHANGED <<vault, staging, settings>>
    /\ UNCHANGED watchVars

\* canvas.toBlob calls back (lines 981-993).
BlobReady(i, blobOk, browserOk) ==
    /\ ops[i].pc = "blob"
    /\ ops' = [ops EXCEPT ![i] =
                  IF blobOk THEN downloadFile(@, browserOk)
                  ELSE ExportFailed(@, "Failed to convert canvas to blob")]
    /\ UNCHANGED <<vault, staging, settings>>
    /\ UNCHANGED watchVars

\* saveToVault: blob.arrayBuffer() resolved (line 893).
BufferReady(i) ==
    /\ ops[i].pc = "buffer"
    /\ ops' = [ops EXCEPT ![i].pc = IF dirPath # "" THEN "exists" ELSE "write"]
    /\ UNCHANGED <<vault, staging, settings>>
    /\ UNCHANGED watchVars

\* saveToVault: vault.adapter.exists(dirPath) settles (line 900).
ExistsDir(i, fails, browserOk) ==
    /\ ops[i].pc = "exists"
    /\ LET called == [ops[i] EXCEPT !.calls = Append(@, Call("exists", dirPath, ~fails, FALSE))]
       IN  ops' = [ops EXCEPT ![i] =
                      IF fails THEN VaultFailed(called, browserOk)
                      ELSE IF folderExists(vault, dirPath) THEN [called EXCEPT !.pc = "write"]
                      ELSE [called EXCEPT !.pc = "createFolder"]]
    /\ UNCHANGED <<vault, staging, settings>>
    /\ UNCHANGED watchVars

\* saveToVault: vault.createFolder(dirPath) settles (lines 904-906); a failure
\* starts the walk over the segments.
CreateDir(i, fails) ==
    /\ ops[i].pc = "createFolder"
    /\ LET ok == ~fails /\ canCreateFolder(vault, dirPath)
           called == [ops[i] EXCEPT !.calls = Append(@, Call("createFolder", dirPath, ok, FALSE))]
       IN  /\ vault' = IF ok THEN vault \cup {adapterPath(dirPath)} ELSE vault
           /\ ops' = [ops EXCEPT ![i] = IF ok THEN [called EXCEPT !.pc = "write"]
                                         ELSE NextSegment(called, 0)]
    /\ UNCHANGED <<staging, settings>>
    /\ UNCHANGED watchVars

\* the walk: vault.adapter.exists(currentPath) settles (line 911).
WalkExists(i, fails, browserOk) ==
    /\ ops[i].pc = "walkExists"
    /\ LET path == walkPath(ops[i].seg)
           called == [ops[i] EXCEPT !.calls = Append(@, Call("exists", path, ~fails, TRUE))]
       IN  ops' = [ops EXCEPT ![i] =
                      IF fails THEN VaultFailed(called, browserOk)
                      ELSE IF folderExists(vault, path) THEN NextSegment(called, called.seg)
                      ELSE [called EXCEPT !.pc = "walkCreate"]]
    /\ UNCHANGED <<vault, staging, settings>>
    /\ UNCHANGED watchVars

\* the walk: vault.createFolder(currentPath) settles (line 913).
WalkCreate(i, fails, browserOk) ==
    /\ ops[i].pc = "walkCreate"
    /\ LET path == walkPath(ops[i].seg)
           ok == ~fails /\ canCreateFolder(vault, path)
           called == [ops[i] EXCEPT !.calls = Append(@, Call("createFolder", path, ok, TRUE))]
       IN  /\ vault' = IF ok THEN vault \cup {adapterPath(path)} ELSE vault
           /\ ops' = [ops EXCEPT ![i] = IF ok THEN NextSegment(called, called.seg)
                                         ELSE VaultFailed(called, browserOk)]
    /\ UNCHANGED <<staging, settings>>
    /\ UNCHANGED watchVars

\* saveToVault: vault.createBinary(fullPath) settles (line 922).
Write(i, fails, browserOk) ==
    /\ ops[i].pc = "write"
    /\ LET ok == ~fails /\ canCreateBinary(vault, fullPath) /\ ~fileExists(ops, fullPath)
           called == [ops[i] EXCEPT !.calls = Append(@, Call("createBinary", fullPath, ok, FALSE))]
       IN  ops' = [ops EXCEPT ![i] = IF ok THEN VaultSaved(called, browserOk)
                                     ELSE VaultFailed(called, browserOk)]
    /\ UNCHANGED <<vault, staging, settings>>
    /\ UNCHANGED watchVars

\* The timer of lines 869-872 removes the download link.
LinkTimer(i) ==
    /\ ops[i].link
    /\ ops' = [ops EXCEPT ![i].link = FALSE]
    /\ UNCHANGED <<vault, staging, settings>>
    /\ UNCHANGED watchVars

\* The documents, settings and vaults an export starts from.
ExportTrees == {{L1, E1, P2, C2a}, {L1, P2, C2a}, {P2, C2b}, {L1, M4}}
ExportFormats == {"svg", "png"}
ExportLocations == {"", "a/b", "/a/"}
InitialVaults == {{}, {"a"}, {"a", "a/b"}}

\* A document is open and the plugin is constructed; onload has not run yet.
InitExport ==
    /\ att \in {[n \in Toggle |-> n \in T] : T \in ExportTrees}
    /\ settings \in {[DEFAULT_SETTINGS EXCEPT !.exportFormat = f,
                                              !.defaultExportLocation = l] :
                        f \in ExportFormats, l \in ExportLocations}
    /\ vault \in InitialVaults
    /\ buttons = {}
    /\ containers = {}
    /\ processedDiagrams = {}
    /\ retryTimers = NoTimers
    /\ served = {}
    /\ scanTimers = 0
    /\ batch = NoBatch
    /\ ops = <<>>
    /\ staging = {}
    /\ last = "open"
    /\ applied = NoCall
    /\ observer = TRUE

\* onload: initializeMermaidDetection scans the document (line 77) and starts the
\* observer.
Load ==
    /\ last = "open"
    /\ \E st \in {processExistingDiagrams(buttons, containers, processedDiagrams)} :
          /\ buttons' = st.btn
          /\ containers' = st.cont
          /\ processedDiagrams' = st.reg
          /\ retryTimers' = Schedule(retryTimers, st.retry)
          /\ served' = served \cup {b.bound : b \in st.btn \ buttons}
    /\ last' = "load"
    /\ UNCHANGED <<att, scanTimers, batch>>
    /\ UNCHANGED exportVars

\* the tree changes only between exports
Still == ops = <<>> /\ last # "open"

NextExport ==
    \/ Load
    \/ Still /\ \E old, new \in Rendering : HostReplace(old, new)
    \/ Still /\ ObserverCallback
    \/ Still /\ ScanTimer
    \/ Still /\ \E e \in Elements : RetryTimer(e)
    \/ \E control \in buttons, editorAvailable \in BOOLEAN : Click(control, editorAvailable)
    \/ \E i \in DOMAIN ops : RenderCall(i)
    \/ \E i \in DOMAIN ops, result \in EngineResults, placed \in BOOLEAN :
          EngineReturns(i, result, placed)
    \/ \E i \in DOMAIN ops, browserOk \in BOOLEAN : Harvest(i, browserOk)
    \/ \E i \in DOMAIN ops, outcome \in ImageOutcomes : ImageLoads(i, outcome)
    \/ \E i \in DOMAIN ops, blobOk, browserOk \in BOOLEAN : BlobReady(i, blobOk, browserOk)
    \/ \E i \in DOMAIN ops : BufferReady(i)
    \/ \E i \in DOMAIN ops, fails, browserOk \in BOOLEAN : ExistsDir(i, fails, browserOk)
    \/ \E i \in DOMAIN ops, fails \in BOOLEAN : CreateDir(i, fails)
    \/ \E i \in DOMAIN ops, fails, browserOk \in BOOLEAN : WalkExists(i, fails, browserOk)
    \/ \E i \in DOMAIN ops, fails, browserOk \in BOOLEAN : WalkCreate(i, fails, browserOk)
    \/ \E i \in DOMAIN ops, fails, browserOk \in BOOLEAN : Write(i, fails, browserOk)
    \/ \E i \in DOMAIN ops : LinkTimer(i)

SpecExport == InitExport /\ [][NextExport]_vars

\* an external call that an operation awaits, other than mermaid.render, settles:
\* the frames and the delay, the image, the encoder and the storage calls
AwaitSettles ==
    \/ \E i \in DOMAIN ops : RenderCall(i)
    \/ \E i \in DOMAIN ops, browserOk \in BOOLEAN : Harvest(i, browserOk)
    \/ \E i \in DOMAIN ops, outcome \in ImageOutcomes : ImageLoads(i, outcome)
    \/ \E i \in DOMAIN ops, blobOk, browserOk \in BOOLEAN : BlobReady(i, blobOk, browserOk)
    \/ \E i \in DOMAIN ops : BufferReady(i)
    \/ \E i \in DOMAIN ops, fails, browserOk \in BOOLEAN : ExistsDir(i, fails, browserOk)
    \/ \E i \in DOMAIN ops, fails \in BOOLEAN : CreateDir(i, fails)
    \/ \E i \in DOMAIN ops, fails, browserOk \in BOOLEAN : WalkExists(i, fails, browserOk)
    \/ \E i \in DOMAIN ops, fails, browserOk \in BOOLEAN : WalkCreate(i, fails, browserOk)
    \/ \E i \in DOMAIN ops, fails, browserOk \in BOOLEAN : Write(i, fails, browserOk)

\* the places at which an operation awaits such a call
AwaitPlaces ==
    {"staged", "reflow", "image", "blob", "buffer", "exists", "createFolder",
     "walkExists", "walkCreate", "write"}

\* an operation awaits such a call: AwaitSettles is enabled, each of its steps
\* being guarded by the place of the operation alone
AwaitDue == \E i \in DOMAIN ops : ops[i].pc \in AwaitPlaces

\* such a call settled: an operation that awaited it went on
AwaitSettled == \E i \in DOMAIN ops : ops[i].pc \in AwaitPlaces /\ ops'[i] # ops[i]

\* weak fairness of AwaitSettles, WF_vars(AwaitSettles), with its enabling condition
\* and its steps written out
AwaitFair == []<>(~AwaitDue) \/ []<><<AwaitSettled>>_vars

\* the exports with every awaited call settling, but for mermaid.render, which may
\* return, throw or never settle
SpecExportLive == InitExport /\ [][NextExport]_vars /\ AwaitFair

(***************************************************************************)
(* Overlapping exports: a second click while an operation waits at one of  *)
(* its awaits.  The document is still; the operations share document.body  *)
(* and the vault.                                                          *)
(***************************************************************************)
MaxOverlap == 2

OverlapLocations == {"", "a/b"}
OverlapVaults == {{}, {"a", "a/b"}}

InitOverlap ==
    /\ att = [n \in Toggle |-> n \in {L1, E1, P2, C2a}]
    /\ settings \in {[DEFAULT_SETTINGS EXCEPT !.exportFormat = f,
                                              !.defaultExportLocation = l] :
                        f \in ExportFormats, l \in OverlapLocations}
    /\ vault \in OverlapVaults
    /\ buttons = {}
    /\ containers = {}
    /\ processedDiagrams = {}
    /\ retryTimers = NoTimers
    /\ served = {}
    /\ scanTimers = 0
    /\ batch = NoBatch
    /\ ops = <<>>
    /\ staging = {}
    /\ last = "open"
    /\ applied = NoCall
    /\ observer = TRUE

NextOverlap ==
    \/ Load
    \/ \E control \in buttons, editorAvailable \in BOOLEAN :
          Len(ops) < MaxOverlap /\ Start(control, editorAvailable)
    \/ \E i \in DOMAIN ops : RenderCall(i)
    \/ \E i \in DOMAIN ops, result \in EngineResults, placed \in BOOLEAN :
          EngineReturns(i, result, placed)
    \/ \E i \in DOMAIN ops, browserOk \in BOOLEAN : Harvest(i, browserOk)
    \/ \E i \in DOMAIN ops, outcome \in ImageOutcomes : ImageLoads(i, outcome)
    \/ \E i \in DOMAIN ops, blobOk, browserOk \in BOOLEAN : BlobReady(i, blobOk, browserOk)
    \/ \E i \in DOMAIN ops : BufferReady(i)
    \/ \E i \in DOMAIN ops, fails, browserOk \in BOOLEAN : ExistsDir(i, fails, browserOk)
    \/ \E i \in DOMAIN ops, fails \in BOOLEAN : CreateDir(i, fails)
    \/ \E i \in DOMAIN ops, fails, browserOk \in BOOLEAN : WalkExists(i, fails, browserOk)
    \/ \E i \in DOMAIN ops, fails, browserOk \in BOOLEAN : WalkCreate(i, fails, browserOk)
    \/ \E i \in DOMAIN ops, fails, browserOk \in BOOLEAN : Write(i, fails, browserOk)
    \/ \E i \in DOMAIN ops : LinkTimer(i)

SpecOverlap == InitOverlap /\ [][NextOverlap]_vars

(***************************************************************************)
(* Exports under every format setting.  loadSettings (lines 64-66) merges  *)
(* what data.json holds into the settings, so exportFormat is any string;  *)
(* the dropdown of the settings tab (lines 1066-1075) sets it to one of    *)
(* its three options at any moment, also while an export is pending.       *)
(***************************************************************************)
StoredFormats == {"", "svg", "png", "jpeg", "webp"}
DropdownFormats == {"svg", "png", "jpeg"}

InitFormat ==
    /\ att = [n \in Toggle |-> n \in {L1, E1, P2, C2a}]
    /\ settings \in {[DEFAULT_SETTINGS EXCEPT !.exportFormat = f] : f \in StoredFormats}
    /\ vault = {}
    /\ buttons = {}
    /\ containers = {}
    /\ processedDiagrams = {}
    /\ retryTimers = NoTimers
    /\ served = {}
    /\ scanTimers = 0
    /\ batch = NoBatch
    /\ ops = <<>>
    /\ staging = {}
    /\ last = "open"
    /\ applied = NoCall
    /\ observer = TRUE

\* the onChange of the format dropdown (lines 1072-1075)
SetExportFormat(value) ==
    /\ last # "open"
    /\ settings.exportFormat # value
    /\ settings' = [settings EXCEPT !.exportFormat = value]
    /\ UNCHANGED <<ops, vault, staging, applied, observer>>
    /\ UNCHANGED domVars
    /\ UNCHANGED <<last, served>>

NextFormat ==
    \/ Load
    \/ \E value \in DropdownFormats : SetExportFormat(value)
    \/ \E control \in buttons, editorAvailable \in BOOLEAN : Click(control, editorAvailable)
    \/ \E i \in DOMAIN ops : RenderCall(i)
    \/ \E i \in DOMAIN ops, result \in EngineResults, placed \in BOOLEAN :
          EngineReturns(i, result, placed)
    \/ \E i \in DOMAIN ops, browserOk \in BOOLEAN : Harvest(i, browserOk)
    \/ \E i \in DOMAIN ops, outcome \in ImageOutcomes : ImageLoads(i, outcome)
    \/ \E i \in DOMAIN ops, blobOk, browserOk \in BOOLEAN : BlobReady(i, blobOk, browserOk)
    \/ \E i \in DOMAIN ops : LinkTimer(i)

SpecFormat == InitFormat /\ [][NextFormat]_vars

(***************************************************************************)
(* The watcher runs while an export is pending.  The staging wrapper is    *)
(* appended to and removed from document.body, which the observer watches  *)
(* (lines 109-112): the steps of the operation queue records for it.       *)
(***************************************************************************)
InterleaveTrees == {{L1, E1, P2, C2a}, {L1, P2, C2a}, {P2, C2a}}

InitInterleave ==
    /\ att \in {[n \in Toggle |-> n \in T] : T \in InterleaveTrees}
    /\ settings = DEFAULT_SETTINGS
    /\ vault = {}
    /\ buttons = {}
    /\ containers = {}
    /\ processedDiagrams = {}
    /\ retryTimers = NoTimers
    /\ served = {}
    /\ scanTimers = 0
    /\ batch = NoBatch
    /\ ops = <<>>
    /\ staging = {}
    /\ last = "open"
    /\ applied = NoCall
    /\ observer = TRUE

Loaded == last # "open"

NextInterleave ==
    \/ Load
    \/ Loaded /\ ObserverCallback
    \/ Loaded /\ ScanTimer
    \/ Loaded /\ \E e \in Elements : RetryTimer(e)
    \/ Loaded /\ Hover
    \/ /\ Len(ops) < MaxOps
       /\ \E control \in buttons, editorAvailable \in BOOLEAN :
             StartOperation(control, editorAvailable)
       /\ batch' = StagingRecords
    \/ \E i \in DOMAIN ops : ~Pending /\ RenderCall(i)
    \/ \E i \in DOMAIN ops, result \in EngineResults, placed \in BOOLEAN :
          ~Pending /\ EngineSettles(i, result, placed) /\ batch' = StagingRecords
    \/ \E i \in DOMAIN ops, browserOk \in BOOLEAN :
          ~Pending /\ HarvestResult(i, browserOk) /\ batch' = StagingRecords
    \/ \E i \in DOMAIN ops : ~Pending /\ LinkTimer(i)

SpecInterleave == InitInterleave /\ [][NextInterleave]_vars

(***************************************************************************)
(* The functions of the plugin that read nothing but their arguments and   *)
(* the settings, each called on its own on inputs of a small set.          *)
(***************************************************************************)
stateVars == <<att, containers, buttons, processedDiagrams, scanTimers, retryTimers,
               batch, ops, vault, staging, settings, last, served, observer>>

\* the clock of the calls
Now == [timestamp |-> "2024-03-01T10-00-00", date |-> "2024-03-01", time |-> "10-00-00"]

Templates == {"{noteName}-{date}", "", "{date}.svg", "{noteName}{noteName}",
              "{time}_{timestamp}"}
ActiveFiles == {"Design", "", "US$$", "{date}"}
Formats == {"svg", "png", "jpeg", ""}

\* generateFilename() with the given settings and active file
ApplyGenerateFilename(template, format, activeFile) ==
    /\ applied' = [fn |-> "generateFilename", template |-> template,
                   format |-> format, activeFile |-> activeFile,
                   result |-> generateFilenameAt(
                       [DEFAULT_SETTINGS EXCEPT !.filenameFormat = template,
                                                !.exportFormat = format],
                       basename(activeFile), Now.timestamp, Now.date, Now.time)]
    /\ UNCHANGED stateVars

\* Numbers with a fraction are held in tenths; NaN is what parseFloat gives for a
\* text that starts with no number.
NaN == -1
Digits == "0123456789"
IsDigit(c) == \E i \in 1..10 : SubSeq(Digits, i, i) = c
digitValue(c) == (CHOOSE i \in 1..10 : SubSeq(Digits, i, i) = c) - 1

\* the digits s starts with: <<their value after acc, the rest of s>>
RECURSIVE parseDigits(_, _)
parseDigits(s, acc) ==
    IF Len(s) > 0 /\ IsDigit(SubSeq(s, 1, 1))
    THEN parseDigits(SubSeq(s, 2, Len(s)), acc * 10 + digitValue(SubSeq(s, 1, 1)))
    ELSE <<acc, s>>

\* parseFloat(s), in tenths: leading white space is skipped, the number ends at
\* the first character that cannot continue it (the inputs have one decimal at most)
parseFloat(s) ==
    LET t == trimStart(s)
        whole == parseDigits(t, 0)
        rest == whole[2]
    IN  IF rest = t THEN NaN
        ELSE IF Len(rest) >= 2 /\ SubSeq(rest, 1, 1) = "." /\ IsDigit(SubSeq(rest, 2, 2))
        THEN whole[1] * 10 + digitValue(SubSeq(rest, 2, 2))
        ELSE whole[1] * 10

\* s.split(/\s+/): cur is the part being read, gap tells that the last character
\* read was white space
RECURSIVE splitSpaces(_, _, _)
splitSpaces(s, cur, gap) ==
    IF Len(s) = 0 THEN <<cur>>
    ELSE IF IsSpace(SubSeq(s, 1, 1))
    THEN (IF gap THEN <<>> ELSE <<cur>>) \o splitSpaces(SubSeq(s, 2, Len(s)), "", TRUE)
    ELSE splitSpaces(SubSeq(s, 2, Len(s)), cur \o SubSeq(s, 1, 1), FALSE)

\* the multiplier without the switch: every tier scales by 2.0
getQualityMultiplierFlat(exportQuality) == 4

\* getQualityMultiplier, in halves (lines 1014-1027)
getQualityMultiplier(exportQuality) ==
    IF exportQuality = "low" THEN 2
    ELSE IF exportQuality = "medium" THEN 3
    ELSE IF exportQuality = "high" THEN 4
    ELSE IF exportQuality = "maximum" THEN 6
    ELSE 4

\* Math.round(x * qualityMultiplier) for x in tenths and the multiplier in halves
\* (x is not negative)
roundScaled(x, multiplier) == (x * multiplier + 10) \div 20

\* the canvas size of convertSvgToRaster (lines 938-954, 967-968) for the root
\* element's attributes; an absent attribute is ""
canvasSize(svg, exportQuality) ==
    LET boxParts == IF svg.viewBox # "" THEN splitSpaces(svg.viewBox, "", FALSE) ELSE <<>>
        width == IF Len(boxParts) >= 4 THEN parseFloat(boxParts[3])
                 ELSE parseFloat(IF svg.width # "" THEN svg.width ELSE "800")
        height == IF Len(boxParts) >= 4 THEN parseFloat(boxParts[4])
                  ELSE parseFloat(IF svg.height # "" THEN svg.height ELSE "600")
    IN  [width |-> roundScaled(width, getQualityMultiplier(exportQuality)),
         height |-> roundScaled(height, getQualityMultiplier(exportQuality))]

\* Root elements as mermaid and generateHighQualitySvg produce them, each with its
\* intrinsic size in tenths (w, h).
SvgRoots ==
    {[viewBox |-> "0 0 400 300", width |-> "100%", height |-> "", w |-> 4000, h |-> 3000],
     [viewBox |-> "0 0 401 301.5", width |-> "100", height |-> "50", w |-> 4010, h |-> 3015],
     [viewBox |-> "", width |-> "100", height |-> "50", w |-> 1000, h |-> 500],
     [viewBox |-> "", width |-> "33.5", height |-> "", w |-> 335, h |-> 6000],
     [viewBox |-> "", width |-> "", height |-> "", w |-> 8000, h |-> 6000]}
Qualities == {"low", "medium", "high", "maximum", "ultra"}

\* convertSvgToRaster sizes its canvas
ApplyCanvasSize(svg, exportQuality) ==
    /\ applied' = [fn |-> "convertSvgToRaster", svg |-> svg,
                   exportQuality |-> exportQuality,
                   result |-> canvasSize(svg, exportQuality)]
    /\ UNCHANGED stateVars

\* The markup of an svg document, as mermaid returns it: one start tag <svg ...>
\* with attributes name="value", then the content.  The position of the first
\* occurrence of k in s, 0 if there is none:
indexOf(s, k) ==
    LET hits == {i \in 1..(Len(s) - Len(k) + 1) : SubSeq(s, i, i + Len(k) - 1) = k}
    IN  IF hits = {} THEN 0 ELSE CHOOSE i \in hits : \A j \in hits : i <= j

\* the character references of attribute values
escapeAttribute(v) ==
    replaceAll(replaceAll(replaceAll(v, "&", "&amp;"), "\"", "&quot;"), "<", "&lt;")
unescapeAttribute(v) ==
    replaceAll(replaceAll(replaceAll(v, "&quot;", "\""), "&lt;", "<"), "&amp;", "&")

\* the attributes of a start tag, in order
RECURSIVE parseAttributes(_)
parseAttributes(s) ==
    LET t == trimStart(s)
        eq == indexOf(t, "=\"")
        after == SubSeq(t, eq + 2, Len(t))
        close == indexOf(after, "\"")
    IN  IF eq = 0 \/ close = 0 THEN <<>>
        ELSE <<[name |-> SubSeq(t, 1, eq - 1),
                value |-> unescapeAttribute(SubSeq(after, 1, close - 1))]>>
             \o parseAttributes(SubSeq(after, close + 1, Len(after)))

\* new DOMParser().parseFromString(text, 'image/svg+xml'): the root element, or a
\* parsererror document for text that is not well-formed
parseFromString(text) ==
    IF ~(startsWith(text, "<svg") /\ endsWith(text, "</svg>") /\ indexOf(text, ">") > 0)
    THEN [parsererror |-> TRUE, attributes |-> <<>>, content |-> ""]
    ELSE [parsererror |-> FALSE,
          attributes |-> parseAttributes(SubSeq(text, 5, indexOf(text, ">") - 1)),
          content |-> SubSeq(text, indexOf(text, ">") + 1, Len(text))]

\* element.getAttribute(name); "" stands for null as well
RECURSIVE attributeOf(_, _)
attributeOf(attributes, name) ==
    IF attributes = <<>> THEN ""
    ELSE IF Head(attributes).name = name THEN Head(attributes).value
    ELSE attributeOf(Tail(attributes), name)

getAttribute(svgElement, name) == attributeOf(svgElement.attributes, name)

\* element.setAttribute(name, value)
setAttribute(svgElement, name, value) ==
    IF \E i \in DOMAIN svgElement.attributes : svgElement.attributes[i].name = name
    THEN [svgElement EXCEPT !.attributes =
             [i \in DOMAIN @ |-> IF @[i].name = name THEN [name |-> name, value |-> value]
                                 ELSE @[i]]]
    ELSE [svgElement EXCEPT !.attributes = Append(@, [name |-> name, value |-> value])]

RECURSIVE serializeAttributes(_)
serializeAttributes(attributes) ==
    IF attributes = <<>> THEN ""
    ELSE " " \o Head(attributes).name \o "=\"" \o escapeAttribute(Head(attributes).value)
         \o "\"" \o serializeAttributes(Tail(attributes))

\* new XMLSerializer().serializeToString(svgElement)
serializeToString(svgElement) ==
    "<svg" \o serializeAttributes(svgElement.attributes) \o ">" \o svgElement.content

\* setAttribute if the test holds
setIf(test, svgElement, name, value) ==
    IF test THEN setAttribute(svgElement, name, value) ELSE svgElement

\* generateHighQualitySvg without lines 770-772: the viewBox is set in the
\* branches of the quality tiers only
generateHighQualitySvgTiered(svgContent, exportQuality) ==
    LET svgElement == parseFromString(svgContent)
        currentWidth == getAttribute(svgElement, "width")
        currentHeight == getAttribute(svgElement, "height")
        viewBoxValue == "0 0 " \o currentWidth \o " " \o currentHeight
        tiered == setIf(/\ exportQuality \in {"maximum", "high", "medium"}
                        /\ getAttribute(svgElement, "viewBox") = ""
                        /\ currentWidth # "" /\ currentHeight # "",
                        svgElement, "viewBox", viewBoxValue)
    IN  IF svgElement.parsererror THEN svgContent ELSE serializeToString(tiered)

\* generateHighQualitySvg (lines 751-799)
generateHighQualitySvg(svgContent, exportQuality) ==
    LET svgElement == parseFromString(svgContent)
        currentWidth == getAttribute(svgElement, "width")
        currentHeight == getAttribute(svgElement, "height")
        viewBox == getAttribute(svgElement, "viewBox")
        viewBoxValue == "0 0 " \o currentWidth \o " " \o currentHeight
        ensured == setIf(viewBox = "" /\ currentWidth # "" /\ currentHeight # "",
                         svgElement, "viewBox", viewBoxValue)
        tiered == setIf(/\ exportQuality \in {"maximum", "high", "medium"}
                        /\ getAttribute(ensured, "viewBox") = ""
                        /\ currentWidth # "" /\ currentHeight # "",
                        ensured, "viewBox", viewBoxValue)
        named == setIf(getAttribute(tiered, "xmlns") = "",
                       tiered, "xmlns", "http://www.w3.org/2000/svg")
        linked == setIf(getAttribute(named, "xmlns:xlink") = "",
                        named, "xmlns:xlink", "http://www.w3.org/1999/xlink")
    IN  IF svgElement.parsererror THEN svgContent ELSE serializeToString(linked)

\* Markup as mermaid.render returns it, each with what its root element holds:
\* sized tells that width and height are both given, box is its viewBox.
Markups ==
    {[text |-> "<svg width=\"100\" height=\"50\"><g/></svg>", sized |-> TRUE, box |-> ""],
     [text |-> "<svg viewBox=\"0 0 400 300\" width=\"100%\"><g/></svg>",
      sized |-> FALSE, box |-> "0 0 400 300"],
     [text |-> "<svg id=\"a&amp;b\" width=\"100%\" height=\"80\" xmlns=\"http://www.w3.org/2000/svg\"><g/></svg>",
      sized |-> TRUE, box |-> ""],
     [text |-> "<svg width=\"10\" height=\"5\" viewBox=\"1 2 3 4\"><g/></svg>",
      sized |-> TRUE, box |-> "1 2 3 4"],
     [text |-> "<svg><g/></svg>", sized |-> FALSE, box |-> ""],
     [text |-> "<svg width=\"100\" height=\"50\"", sized |-> FALSE, box |-> ""]}

\* generateHighQualitySvg normalizes a rendering
ApplyGenerateHighQualitySvg(markup, exportQuality) ==
    /\ applied' = [fn |-> "generateHighQualitySvg", markup |-> markup,
                   exportQuality |-> exportQuality,
                   result |-> generateHighQualitySvg(markup.text, exportQuality)]
    /\ UNCHANGED stateVars

\* Texts handed to the validator: diagram sources, prose, blank texts.
Codes ==
    {"flowchart TD\nA-->B", "just some prose", "", "  \n\t ", "  PIE title x\n",
     "Graph LR", "a magpie", "sequenceDiagram\nA->>B: hi", "stateDiagram-v2", "TD\nA-->B"}

\* validateMermaidCode sniffs a text
ApplyValidateMermaidCode(code) ==
    /\ applied' = [fn |-> "validateMermaidCode", code |-> code,
                   result |-> validateMermaidCode(code)]
    /\ UNCHANGED stateVars

NextPure ==
    \/ \E template \in Templates, format \in Formats, activeFile \in ActiveFiles :
          ApplyGenerateFilename(template, format, activeFile)
    \/ \E svg \in SvgRoots, exportQuality \in Qualities : ApplyCanvasSize(svg, exportQuality)
    \/ \E markup \in Markups, exportQuality \in Qualities :
          ApplyGenerateHighQualitySvg(markup, exportQuality)
    \/ \E code \in Codes : ApplyValidateMermaidCode(code)

SpecPure == Init /\ [][NextPure]_vars

(***************************************************************************)
(* extractMermaidCode called again and again on the diagrams of a document *)
(* that the host goes on re-rendering.                                     *)
(***************************************************************************)
NoRun == [result |-> "", subtree |-> {}, editorAvailable |-> FALSE, ran |-> FALSE]

\* the attached elements that mermaidElement contains, itself included
Subtree(mermaidElement, cont) == {x \in Elements : contains(mermaidElement, x, cont)}

\* extractMermaidCode runs on the diagram a control is bound to (lines 390, 427); the
\* run before it on the same diagram is kept next to it
Extract(control, editorAvailable) ==
    /\ ~Pending
    /\ control \in AttachedControls
    /\ applied' =
          [fn |-> "extractMermaidCode",
           mermaidElement |-> control.bound,
           before |-> IF applied.fn = "extractMermaidCode"
                         /\ applied.mermaidElement = control.bound
                      THEN applied.after ELSE NoRun,
           after |-> [result |-> extractMermaidCode(control.bound, containers,
                                                    editorAvailable),
                      subtree |-> Subtree(control.bound, containers),
                      editorAvailable |-> editorAvailable,
                      ran |-> TRUE]]
    /\ UNCHANGED stateVars

NextExtract ==
    \/ Load
    \/ Still /\ \E old, new \in Rendering : HostReplace(old, new)
    \/ Still /\ ObserverCallback
    \/ Still /\ ScanTimer
    \/ Still /\ \E e \in Elements : RetryTimer(e)
    \/ \E control \in buttons, editorAvailable \in BOOLEAN : Extract(control, editorAvailable)

SpecExtract == InitExport /\ [][NextExtract]_vars

(***************************************************************************)
(* Properties of the watcher, the scan and the cleanup.                    *)
(***************************************************************************)
\* the elements the Locator returns for the current tree
DiagramNodes ==
    {allMermaidElements(containers)[i] : i \in 1..Len(allMermaidElements(containers))}

\* the attached controls whose handler is bound to d
ControlsFor(d) == {b \in AttachedControls : b.bound = d}

\* no callback, scan or retry is outstanding
Quiescent == ~Pending /\ scanTimers = 0 /\ retryTimers = NoTimers

\* every diagram node lies in a block wrapper, so that the anchor resolver's last
\* strategy cannot fail
AllInBlocks == \A d \in DiagramNodes : closest(d, SelSynthWrapper, containers) # Null

\* C1: when a scan cycle (the scan and its anchor retries) has completed on the
\* current tree, and every diagram lies in a block wrapper, every diagram node has
\* exactly one attached control and every attached control belongs to a diagram node.
C1_OneControlPerDiagram ==
    (last \in {"scan", "retry"} /\ Quiescent /\ AllInBlocks) =>
        /\ \A d \in DiagramNodes : Cardinality(ControlsFor(d)) = 1
        /\ \A b \in AttachedControls : b.bound \in DiagramNodes

\* C2: once the observer callback for a mutation has run, a node is in the
\* registry if and only if a control created for it is attached in the document.
C2_RegisteredIffControl ==
    ~Pending => \A e \in Elements : (e \in processedDiagrams) <=> (ControlsFor(e) # {})

\* C3: no anchor holds two export controls: two controls with the same parent
\* are the same control.
C3_OneControlPerAnchor ==
    \A b1, b2 \in buttons : b1.anchor = b2.anchor => b1 = b2

\* C3 witness: two registered nodes resolve to the same anchor, which holds one
\* control: addExportButton was called on that anchor a second time and added nothing.
C3_SecondCallWitness ==
    \E d1, d2 \in processedDiagrams :
        /\ d1 # d2
        /\ inDocument(d1, containers) /\ inDocument(d2, containers)
        /\ findCodeBlockActionBar(d1, containers).anchor # Null
        /\ findCodeBlockActionBar(d1, containers).anchor
               = findCodeBlockActionBar(d2, containers).anchor
        /\ Cardinality({b \in buttons :
               b.anchor = findCodeBlockActionBar(d1, containers).anchor}) = 1

\* r and d are renderings of the same block
Equivalent(r, d) == r # d /\ {r, d} \subseteq Rendering

\* C4: after a cleanup pass no attached control is bound to a node that has left
\* the tree; and after the scan that follows the arrival of an equivalent node,
\* exactly one control is bound to the new node and none to the removed one.
C4_RemovedThenReadded ==
    /\ last = "cleanup" =>
           \A r \in served : ~inDocument(r, containers) => ControlsFor(r) = {}
    /\ (last = "scan" /\ Quiescent) =>
           \A d \in DiagramNodes, r \in served :
               (Equivalent(r, d) /\ ~inDocument(r, containers)) =>
                   /\ Cardinality(ControlsFor(d)) = 1
                   /\ ControlsFor(r) = {}

\* C5: immediately after a cleanup pass every registered node is contained in
\* document.body.
C5_RegistryReachable ==
    last = "cleanup" => \A e \in processedDiagrams : inDocument(e, containers)

\* C5 witness: a cleanup pass has just run, and a node that once got a control has
\* left the tree and is no longer registered, while another node still is.
C5_PrunedWitness ==
    /\ last = "cleanup"
    /\ processedDiagrams # {}
    /\ \E b \in buttons :
          ~inDocument(b.bound, containers) /\ b.bound \notin processedDiagrams

(***************************************************************************)
(* Properties of the export pipeline.                                      *)
(***************************************************************************)
\* the block wrappers of the skeleton
Blocks == {L1, P2}

\* the block the control sits in
AdjacentBlock(control) == closest(control.anchor, Blocks, containers)

\* the source of the diagram of block w, as the note holds it
SourceOf(w) ==
    IF w = L1 THEN trim(FenceL1)
    ELSE IF w = P2
    THEN (IF \E r \in Rendering : att[r]
          THEN trim(ownText[CHOOSE r \in Rendering : att[r]]) ELSE "")
    ELSE trim(FenceM4)

\* the notices of operation i, as a set
Notices(i) == {ops[i].notices[j] : j \in DOMAIN ops[i].notices}

\* the storage calls of operation i that failed
FailedCalls(i) == {j \in DOMAIN ops[i].calls : ~ops[i].calls[j].ok}

\* C6: the text an export hands to mermaid.render is the source of the diagram
\* of the block that holds the clicked control.
C6_RendersAdjacentSource ==
    \A i \in DOMAIN ops :
        ops[i].renders > 0 => ops[i].code = SourceOf(AdjacentBlock(ops[i].control))

\* C7: a staging wrapper is created and mermaid.render is called only for text
\* that was extracted and validates; an operation whose extraction returned null
\* or whose text does not validate has ended with an error notice, the loading
\* notice hidden, no staging wrapper and no render call.
C7_RenderOnlyValidated ==
    \A i \in DOMAIN ops :
        LET accepted == ops[i].code # "" /\ validateMermaidCode(ops[i].code)
        IN  /\ (ops[i].wrappers > 0 \/ ops[i].renders > 0 \/ i \in staging) => accepted
            /\ ~accepted =>
                  /\ ops[i].pc = "done" /\ ~ops[i].loading
                  /\ ops[i].wrappers = 0 /\ ops[i].renders = 0 /\ i \notin staging
                  /\ ops[i].notices =
                        <<IF ops[i].code = "" THEN NoticeNoSource ELSE NoticeInvalid>>

\* C7 witness: an export of the text "not a diagram" has ended with the
\* validation notice.
C7_InvalidRejectedWitness ==
    \E i \in DOMAIN ops :
        /\ ops[i].code = "not a diagram"
        /\ ops[i].pc = "done"
        /\ ops[i].notices = <<NoticeInvalid>>

\* C8: once renderMermaidToSvg has completed, with an svg or with a failure, the
\* staging wrapper of the operation is not in document.body.
C8_StagingRemoved ==
    \A i \in DOMAIN ops :
        ops[i].pc \notin {"staged", "engine", "reflow"} => i \notin staging

\* C8 witness: mermaid.render was called and threw; the operation has reported the
\* render failure and its wrapper is gone.
C8_RenderThrewWitness ==
    \E i \in DOMAIN ops :
        /\ ops[i].renders = 1 /\ ops[i].result = "throws"
        /\ ops[i].pc = "done" /\ NoticeRenderFailed \in Notices(i)
        /\ i \notin staging

\* C9 as stated: when any storage call of the vault save has failed and the browser
\* download has not, the operation has shown the warning, has gone to the browser
\* download and has ended with the success notice.
C9_AnyFailedStepFallsBack ==
    \A i \in DOMAIN ops :
        (/\ ops[i].pc = "done"
         /\ FailedCalls(i) # {}
         /\ NoticeExportFailed("Failed to download file: browser") \notin Notices(i)) =>
            /\ NoticeVaultWarning \in Notices(i)
            /\ ops[i].dest = "browser"
            /\ NoticeSuccess(generateFilename(settings)) \in Notices(i)

\* C9 amended: a failed storage call other than the first createFolder(dirPath)
\* makes saveToVault throw; when saveToVault has thrown, the operation has shown the
\* warning and has gone on to the browser download, and it has ended with the
\* success notice unless the browser download failed; the vault error is never
\* reported as an export failure.
C9_VaultErrorFallsBack ==
    \A i \in DOMAIN ops :
        /\ (\E j \in FailedCalls(i) :
               ops[i].calls[j].walk \/ ops[i].calls[j].api # "createFolder") => ops[i].threw
        /\ ops[i].threw =>
              /\ ops[i].pc = "done"
              /\ NoticeVaultWarning \in Notices(i)
              /\ \/ /\ ops[i].dest = "browser"
                    /\ ops[i].notices[Len(ops[i].notices)]
                          = NoticeSuccess(generateFilename(settings))
                 \/ /\ ops[i].dest = "none"
                    /\ ops[i].notices[Len(ops[i].notices)]
                          = NoticeExportFailed("Failed to download file: browser")
        /\ NoticeExportFailed("Failed to download file: vault") \notin Notices(i)

\* C9 witness: the folder was there, the binary write failed, and the operation
\* ended with the warning, the browser download and the success notice.
C9_WriteFailedWitness ==
    \E i \in DOMAIN ops :
        /\ ops[i].threw /\ ops[i].dest = "browser"
        /\ ops[i].calls # <<>>
        /\ ops[i].calls[Len(ops[i].calls)].api = "createBinary"
        /\ ops[i].calls[Len(ops[i].calls)].parentPresent
        /\ ~ops[i].calls[Len(ops[i].calls)].ok
        /\ ops[i].notices = <<NoticeVaultWarning, NoticeSuccess(generateFilename(settings))>>

\* C10: in the walk over the segments every createFolder is called on a segment
\* whose parent exists; a single save calls createFolder on no folder that exists;
\* createBinary is called only when the folder of the file exists; and a file that
\* went to the vault has every segment of its folder path in the vault.
C10_SegmentsParentFirst ==
    \A i \in DOMAIN ops :
        /\ \A j \in DOMAIN ops[i].calls :
              LET call == ops[i].calls[j]
              IN  /\ (call.api = "createFolder" /\ call.walk) => call.parentPresent
                  /\ (call.api = "createFolder" /\ Len(ops) = 1) => ~call.present
                  /\ call.api = "createBinary" => call.parentPresent
        /\ ops[i].dest = "vault" =>
              \A k \in 1..Len(parts) : currentPath(parts, k) \in vault

\* C10 witness: the folder a/b and its parent did not exist; createFolder(a/b/)
\* failed, the walk created a and then a/b, and the file was written.
C10_NestedWalkWitness ==
    \E i \in DOMAIN ops :
        /\ ops[i].dest = "vault"
        /\ Len(ops[i].calls) = 7
        /\ [j \in 1..7 |-> ops[i].calls[j].api]
              = <<"exists", "createFolder", "exists", "createFolder",
                  "exists", "createFolder", "createBinary">>
        /\ [j \in 1..7 |-> ops[i].calls[j].ok]
              = <<TRUE, FALSE, TRUE, TRUE, TRUE, TRUE, TRUE>>
        /\ [j \in 1..7 |-> ops[i].calls[j].present]
              = <<FALSE, FALSE, FALSE, FALSE, FALSE, FALSE, FALSE>>
        /\ ops[i].calls[4].path = "a" /\ ops[i].calls[6].path = "a/b"

\* the notices of operation i that end it: all but the loading notice (which is
\* not in notices) and the vault warning
RECURSIVE TerminalNotices(_)
TerminalNotices(q) ==
    IF q = <<>> THEN <<>>
    ELSE IF Head(q) = NoticeVaultWarning THEN TerminalNotices(Tail(q))
    ELSE <<Head(q)>> \o TerminalNotices(Tail(q))

\* the failure messages of handleExportClick
FailureNotices ==
    {NoticeNoSource, NoticeInvalid, NoticeRenderFailed,
     NoticeExportFailed("Failed to load SVG image"),
     NoticeExportFailed("Could not get canvas context"),
     NoticeExportFailed("Failed to convert canvas to blob"),
     NoticeExportFailed("Failed to download file: browser")}

\* C11: an operation that has ended has shown exactly one terminal message, the
\* success message or one failure message, and it is the last notice shown; an
\* operation that has not ended has shown none.
C11_OneTerminalMessage ==
    \A i \in DOMAIN ops :
        LET terminal == TerminalNotices(ops[i].notices)
        IN  IF ops[i].pc = "done"
            THEN /\ Len(terminal) = 1
                 /\ terminal[1] = ops[i].notices[Len(ops[i].notices)]
                 /\ terminal[1] \in FailureNotices
                                      \cup {NoticeSuccess(generateFilename(settings))}
            ELSE terminal = <<>>

\* C11 witness: the raster conversion failed (toBlob gave no blob) and the
\* operation ended with one failure message.
C11_ConversionFailedWitness ==
    \E i \in DOMAIN ops :
        /\ ops[i].pc = "done"
        /\ ops[i].renders = 1 /\ ops[i].result = "svg"
        /\ ops[i].notices = <<NoticeExportFailed("Failed to convert canvas to blob")>>

\* C12: an operation that has ended has hidden its loading notice.
C12_LoadingHidden ==
    \A i \in DOMAIN ops : ops[i].pc = "done" => ~ops[i].loading

(***************************************************************************)
(* Properties of the functions called on their own.                        *)
(***************************************************************************)
\* the value of the placeholder that s starts with, and the placeholder
PlaceholderAt(s, name) ==
    IF startsWith(s, "{noteName}") THEN <<"{noteName}", name>>
    ELSE IF startsWith(s, "{timestamp}") THEN <<"{timestamp}", Now.timestamp>>
    ELSE IF startsWith(s, "{date}") THEN <<"{date}", Now.date>>
    ELSE IF startsWith(s, "{time}") THEN <<"{time}", Now.time>>
    ELSE <<"", "">>

\* the template with every occurrence of a placeholder substituted by its value
RECURSIVE Substituted(_, _)
Substituted(s, name) ==
    IF Len(s) = 0 THEN s
    ELSE IF PlaceholderAt(s, name)[1] # ""
    THEN PlaceholderAt(s, name)[2]
            \o Substituted(SubSeq(s, Len(PlaceholderAt(s, name)[1]) + 1, Len(s)), name)
    ELSE SubSeq(s, 1, 1) \o Substituted(SubSeq(s, 2, Len(s)), name)

\* C13: generateFilename returns the template (the default one for an empty
\* setting) with every placeholder substituted by its value, followed by "." and
\* the extension exactly when the substituted name does not end with it; the
\* template {noteName}-{date} for note Design on 2024-03-01 in the svg format
\* gives Design-2024-03-01.svg.
C13_FilenameFromTemplate ==
    applied.fn = "generateFilename" =>
        LET template == IF applied.template = "" THEN DEFAULT_SETTINGS.filenameFormat
                        ELSE applied.template
            extension == IF applied.format = "" THEN "svg" ELSE applied.format
            name == Substituted(template, basename(applied.activeFile))
        IN  /\ applied.result = IF endsWith(name, "." \o extension) THEN name
                                ELSE name \o "." \o extension
            /\ (/\ applied.template = "{noteName}-{date}"
                /\ applied.activeFile = "Design"
                /\ applied.format = "svg") => applied.result = "Design-2024-03-01.svg"

\* the scale factors of the quality tiers, in halves
TierFactor == [low |-> 2, medium |-> 3, high |-> 4, maximum |-> 6]

\* C14: the canvas of a raster export measures the intrinsic width and height of
\* the artifact, each multiplied by the factor of the quality tier (1.0, 1.5, 2.0,
\* 3.0) and rounded to the nearest integer; the viewport 0 0 400 300 at tier
\* maximum gives 1200 by 900.
C14_CanvasScaled ==
    (applied.fn = "convertSvgToRaster" /\ applied.exportQuality \in DOMAIN TierFactor) =>
        LET factor == TierFactor[applied.exportQuality]
            size == applied.result
        IN  /\ 20 * size.width - 10 <= applied.svg.w * factor
            /\ applied.svg.w * factor < 20 * size.width + 10
            /\ 20 * size.height - 10 <= applied.svg.h * factor
            /\ applied.svg.h * factor < 20 * size.height + 10
            /\ (applied.svg.viewBox = "0 0 400 300" /\ applied.exportQuality = "maximum")
                  => size = [width |-> 1200, height |-> 900]

\* C14 witness: the viewport 0 0 400 300 was converted at tier maximum.
C14_MaximumWitness ==
    /\ applied.fn = "convertSvgToRaster"
    /\ applied.svg.viewBox = "0 0 400 300" /\ applied.exportQuality = "maximum"
    /\ applied.result = [width |-> 1200, height |-> 900]

\* C15: the output of generateHighQualitySvg for a markup whose root element has
\* a width and a height, parsed again, has a viewBox that is not empty, at every
\* quality tier; and the viewBox of a markup that has one is the same in the output.
C15_ViewBoxAfterNormalize ==
    applied.fn = "generateHighQualitySvg" =>
        LET reparsed == parseFromString(applied.result)
        IN  /\ applied.markup.sized =>
                  ~reparsed.parsererror /\ getAttribute(reparsed, "viewBox") # ""
            /\ applied.markup.box # "" =>
                  ~reparsed.parsererror
                  /\ getAttribute(reparsed, "viewBox") = applied.markup.box

\* C15 witness: a markup with width 100 and height 50 and no viewBox was
\* normalized at tier low, and its output has the viewBox 0 0 100 50.
C15_ViewBoxAddedWitness ==
    /\ applied.fn = "generateHighQualitySvg"
    /\ applied.exportQuality = "low"
    /\ applied.markup.sized /\ applied.markup.box = ""
    /\ getAttribute(parseFromString(applied.result), "viewBox") = "0 0 100 50"

\* C16: validateMermaidCode answers TRUE exactly when the trimmed, lower-cased text
\* holds a keyword of the vocabulary as a substring: TRUE for "flowchart TD\nA-->B",
\* FALSE for "just some prose", FALSE for the empty and for a blank text.
C16_ValidatesByKeyword ==
    applied.fn = "validateMermaidCode" =>
        /\ applied.result \in BOOLEAN
        /\ applied.result <=>
               \E keyword \in mermaidKeywords :
                   indexOf(toLowerCase(trim(applied.code)), keyword) > 0
        /\ applied.code = "flowchart TD\nA-->B" => applied.result
        /\ applied.code = "just some prose" => ~applied.result
        /\ applied.code = "" => ~applied.result
        /\ trim(applied.code) = "" => ~applied.result

C16_UpperCaseKeywordWitness ==
    /\ applied.fn = "validateMermaidCode"
    /\ applied.code = "  PIE title x\n"
    /\ applied.result

\* C17: two runs of extractMermaidCode on the same diagram node, whose subtree is the
\* same at both runs (and the editor as available at both), return the same text, or
\* both return none.
C17_ExtractionIdempotent ==
    (/\ applied.fn = "extractMermaidCode"
     /\ applied.before.ran
     /\ applied.before.subtree = applied.after.subtree
     /\ applied.before.editorAvailable = applied.after.editorAvailable)
        => applied.before.result = applied.after.result

(***************************************************************************)
(* Overlapping exports.                                                    *)
(***************************************************************************)
InFlight(i) == ops[i].pc \in {"staged", "engine", "reflow"}

\* the file at path holds what its writer got from the engine
fileAt(q, path) == q[CHOOSE j \in writers(q, path) : TRUE].svg

C19_DeliveryNeverScans ==
    [][Pending =>
          /\ containers' = containers /\ retryTimers' = retryTimers
          /\ buttons' \subseteq buttons /\ processedDiagrams' \subseteq processedDiagrams
          /\ scanTimers' = IF batch.added THEN scanTimers + 1 ELSE scanTimers
          /\ batch.removed =>
                /\ \A element \in processedDiagrams' : inDocument(element, containers)
                /\ \A b \in buttons' :
                       inDocument(b.anchor, containers) => ~IsOrphan(b, containers)
                /\ batch.added => scanTimers' > 0
          /\ ~batch.removed => buttons' = buttons /\ processedDiagrams' = processedDiagrams
      ]_vars

\* the host replaced the rendering C2a, which had a control, by C2b: the delivery has
\* pruned C2a from the registry and the rescan that will find C2b is still scheduled
C19_ReplacedDeliveredWitness ==
    /\ last = "cleanup"
    /\ scanTimers = 1
    /\ att[C2b] /\ ~att[C2a]
    /\ C2a \in served /\ C2a \notin processedDiagrams
    /\ C2b \notin processedDiagrams

(***************************************************************************)
(* A second run of the scan.  In a state that a scan has just left, the    *)
(* host has not touched the tree since that scan; the retries it left      *)
(* scheduled fire, and then the scan and its retries run once more.        *)
(***************************************************************************)
RECURSIVE RunRetries(_, _)
RunRetries(st, q) ==
    IF q = <<>> THEN st
    ELSE RunRetries(retryCallback(Head(q), st.btn, st.cont, st.reg), Tail(q))

\* processExistingDiagrams followed by the retries it scheduled
Rescan(st) ==
    LET scan == processExistingDiagrams(st.btn, st.cont, st.reg)
    IN  RunRetries([btn |-> scan.btn, cont |-> scan.cont, reg |-> scan.reg], scan.retry)

\* what the run that has just scanned leaves when its retries have fired
FirstRun ==
    RunRetries([btn |-> buttons, cont |-> containers, reg |-> processedDiagrams],
               SortedSeq({e \in Elements : retryTimers[e] > 0}))

\* C20: a second run of processExistingDiagrams with its retries, on the tree as the
\* first run left it, leaves the controls, the synthesized containers and the registry
\* exactly as the first run left them.
C20_RescanIdempotent == last = "scan" => Rescan(FirstRun) = FirstRun

\* the first run gave the preview block L1 its control in a synthesized container
C20_ControlAddedWitness ==
    /\ last = "scan"
    /\ batch.added
    /\ L1 \in processedDiagrams
    /\ L1 \in containers
    /\ Rescan(FirstRun) = FirstRun

(***************************************************************************)
(* The loop of one scan, from the state the scan starts in.                *)
(***************************************************************************)
\* the elements for which the loop resolves an anchor, in order: those that are not
\* registered when their turn comes
RECURSIVE Resolved(_, _)
Resolved(st, q) ==
    IF q = <<>> THEN <<>>
    ELSE (IF Head(q) \in st.reg THEN <<>> ELSE <<Head(q)>>)
         \o Resolved(ProcessElement(st, Head(q)), Tail(q))

ScanStart == [btn |-> buttons, cont |-> containers, reg |-> processedDiagrams, retry |-> <<>>]

NoRepeat(q) == \A i, j \in 1..Len(q) : q[i] = q[j] => i = j

\* C21: in a scan started from any state, the located elements form a set (a node
\* matched by several strategies is in it once), anchor resolution and attachment
\* run at most once for a node, and not at all for a node that is registered.
C21_LocatedOnce ==
    /\ NoRepeat(allMermaidElements(containers))
    /\ NoRepeat(Resolved(ScanStart, allMermaidElements(containers)))
    /\ \A i \in 1..Len(Resolved(ScanStart, allMermaidElements(containers))) :
           Resolved(ScanStart, allMermaidElements(containers))[i] \notin processedDiagrams

\* a scan is due on a document where the code element C2a is matched both as tagged
\* code and as a code-block container, and the preview block L1 is registered
C21_TwiceMatchedWitness ==
    /\ scanTimers > 0 /\ ~Pending
    /\ inDocument(C2a, containers) /\ C2a \notin processedDiagrams
    /\ C2a \in querySelectorAll(Body, SelMermaidCode, containers)
    /\ IsMermaidContainer(C2a, containers)
    /\ inDocument(L1, containers) /\ L1 \in processedDiagrams
    /\ \E i \in 1..Len(allMermaidElements(containers)) : allMermaidElements(containers)[i] = L1

(***************************************************************************)
(* The anchors of the located diagrams.                                    *)
(***************************************************************************)
Located == {allMermaidElements(containers)[i] : i \in 1..Len(allMermaidElements(containers))}

\* the anchor is the parent of an attached edit control whose nearest block wrapper
\* is wrapper
EditAnchorOf(anchor, wrapper) ==
    \E e \in SelEditButton :
        /\ inDocument(e, containers)
        /\ parentElement(e, containers) = anchor
        /\ closest(e, SelBlockWrapper, containers) = wrapper

\* C22: for every located diagram node, the anchor that findCodeBlockActionBar returns
\* is none, or the synthesized container of the node's own block wrapper, or the parent
\* of an edit control whose nearest block wrapper is the node's own.
C22_AnchorInOwnBlock ==
    \A d \in Located :
        LET anchor == findCodeBlockActionBar(d, containers).anchor
        IN  \/ anchor = Null
            \/ /\ anchor \in KNodes
               /\ anchor - KBase = closest(d, SelSynthWrapper, containers)
            \/ /\ closest(d, SelBlockWrapper, containers) # Null
               /\ EditAnchorOf(anchor, closest(d, SelBlockWrapper, containers))

\* the synthesized containers inside wrapper
ContainersIn(wrapper) == querySelectorAll(wrapper, SelExportContainer, containers)

Candidate(k, mermaidElement, editorAvailable) ==
    CASE k = 1 -> ExtractStrategy1(mermaidElement, containers)
      [] k = 2 -> ExtractStrategy2(mermaidElement, containers)
      [] k = 3 -> ExtractStrategy3(mermaidElement, containers)
      [] k = 4 -> ExtractStrategy4(mermaidElement, containers)
      [] k = 5 -> ExtractStrategy5(mermaidElement, containers)
      [] k = 6 -> ExtractStrategy6(editorAvailable, containers)
      [] k = 7 -> ExtractStrategy7(mermaidElement, containers)

\* C24: for the diagram of every attached control, with and without the editor,
\* extractMermaidCode returns the candidate of the first of the strategies 1 to 7 that
\* yields one, and none when no strategy yields one; what it returns is not empty and
\* has no white space at either end.
C24_FirstStrategyWins ==
    \A control \in AttachedControls, editorAvailable \in BOOLEAN :
        LET result == extractMermaidCode(control.bound, containers, editorAvailable)
            yielding == {k \in 1..7 : Candidate(k, control.bound, editorAvailable) # ""}
        IN  /\ yielding = {} => result = ""
            /\ yielding # {} =>
                  /\ \E k \in yielding :
                         /\ \A j \in yielding : k <= j
                         /\ result = Candidate(k, control.bound, editorAvailable)
                  /\ result # "" /\ trim(result) = result

\* the extraction for the preview block L1 was answered by the editor's content, the
\* sixth strategy, the five before it yielding nothing
C24_EditorConsultedWitness ==
    /\ applied.fn = "extractMermaidCode"
    /\ applied.mermaidElement = L1 /\ applied.after.editorAvailable
    /\ applied.after.result = "pie 1"
    /\ \A k \in 1..5 : Candidate(k, L1, TRUE) = ""
    /\ Candidate(6, L1, TRUE) = "pie 1"


\* C25: an export leaves the registry and the export controls unchanged, from the
\* click to its end: no step of an operation adds or removes a registered node or a
\* control, and a rescan that runs while an operation is pending registers and
\* serves what it would without the operation, so never a node of the staging
\* wrapper, which exists for the operation only.
C25_ExportLeavesRegistry ==
    [][/\ ops' # ops => buttons' = buttons /\ processedDiagrams' = processedDiagrams
       /\ processedDiagrams' \cap StagingNodes = {}
       /\ \A b \in buttons' : b.bound \notin StagingNodes]_vars


\* C26: scans, anchor resolution and cleanup passes never modify host-owned content:
\* a step of the watcher attaches or removes no host node and changes no attribute
\* of a host node, the inline position of a block wrapper included.
C26_HostContentUntouched ==
    [][last' # "host" =>
          /\ att' = att
          /\ \A n \in HostNodes :
                stylePosition(n, containers') = stylePosition(n, containers)]_vars


\* C27: after onunload has run no export control exists in the document and the
\* registry is empty, whatever timer or hover event is delivered afterwards.
C27_NothingAfterUnload ==
    ~observer => AttachedControls = {} /\ processedDiagrams = {}


\* C28: the delayed anchor retry is safe against what happened during its delay: a
\* retry that fires for a node that is registered by then, or that is no longer in
\* the document, registers nothing and attaches no control and no container.
C28_RetrySafe ==
    [][\A e \in Elements :
          /\ last' = "retry" /\ retryTimers'[e] < retryTimers[e]
          /\ e \in processedDiagrams \/ ~inDocument(e, containers)
          => /\ processedDiagrams' = processedDiagrams
             /\ buttons' = buttons
             /\ containers' = containers]_vars


\* the files an operation wrote to the vault: its createBinary calls that succeeded
VaultWrites(i) ==
    {j \in DOMAIN ops[i].calls :
        ops[i].calls[j].api = "createBinary" /\ ops[i].calls[j].ok}

EndedWithSuccess(i) ==
    /\ ops[i].pc = "done"
    /\ ops[i].notices # <<>>
    /\ ops[i].notices[Len(ops[i].notices)] = NoticeSuccess(generateFilename(settings))

\* C29: an export that ended with the success message delivered its artifact to
\* exactly one destination: one file written to the vault and no browser download,
\* or, with the vault not configured or its save failed, no file written and exactly
\* one browser download; never both and never neither.
C29_OneDestination ==
    \A i \in DOMAIN ops :
        EndedWithSuccess(i) =>
            \/ /\ Cardinality(VaultWrites(i)) = 1 /\ ops[i].downloads = 0
               /\ trim(settings.defaultExportLocation) # "" /\ ~ops[i].threw
            \/ /\ VaultWrites(i) = {} /\ ops[i].downloads = 1
               /\ trim(settings.defaultExportLocation) = "" \/ ops[i].threw

\* C29 witness: an export to a configured folder ended with the success message,
\* its file written to the vault and no browser download triggered.
C29_VaultDeliveredWitness ==
    \E i \in DOMAIN ops :
        EndedWithSuccess(i) /\ VaultWrites(i) # {} /\ ops[i].downloads = 0


\* the text after the last dot of a filename
extensionOf(filename) ==
    LET dots == {k \in 1..Len(filename) : SubSeq(filename, k, k) = "."}
    IN  IF dots = {} THEN ""
        ELSE SubSeq(filename, (CHOOSE k \in dots : \A j \in dots : j <= k) + 1, Len(filename))

\* C30: the extension of the filename under which an artifact is persisted matches
\* the format of the bytes written, for every value of exportFormat and whatever
\* the settings are changed to while the export is pending.
C30_ExtensionMatchesBytes ==
    \A i \in DOMAIN ops :
        ops[i].dest # "none" => extensionOf(ops[i].filename) = ops[i].format


\* C31: the watcher reaches quiescence: when from some moment on the host changes
\* the tree no more and no hover arrives, then from some moment on no callback and
\* no timer is pending, so nothing of the watcher runs and the tree and the
\* registry change no more.
C31_ReachesQuiescence ==
    <>[][last' \notin {"host", "hover"}]_vars => <>[]Quiescent

\* C31 witness: controls are attached, and the rescan that their insertion triggered
\* has run and found nothing to add: no callback and no timer is pending.
C31_SettledAfterRescanWitness ==
    Quiescent /\ last = "scan" /\ AttachedControls # {} /\ processedDiagrams # {}


\* the operation reached a terminal outcome: it has ended, its last notice is the
\* success message or a failure message, and its staging wrapper is removed
Terminated(i) ==
    /\ ops[i].pc = "done"
    /\ ops[i].notices # <<>>
    /\ ops[i].notices[Len(ops[i].notices)]
          \in FailureNotices \cup {NoticeSuccess(ops[i].filename)}
    /\ i \notin staging

\* C32: when every external call an operation awaits returns or fails, the operation
\* terminates: from some moment on every operation has reached a terminal outcome
\* with its staging wrapper removed, or it waits for a render call that does not
\* return, and nothing else keeps an operation pending.
C32_ExportTerminates ==
    <>[](\A i \in DOMAIN ops : Terminated(i) \/ ops[i].pc = "engine")

\* C32 witness: an export that went through the raster conversion and the walk over
\* the folder segments has terminated with the file in the vault.
C32_LongestPathWitness ==
    \E i \in DOMAIN ops :
        /\ Terminated(i) /\ ops[i].dest = "vault" /\ ops[i].format = "png"
        /\ \E j \in DOMAIN ops[i].calls : ops[i].calls[j].walk

====
